---- MODULE Spec2Model ----
(***************************************************************************)
(* The wallet evaluation pipeline of multi-coin-processor.py and           *)
(* scrapers/gmgn.py: the rate limiter (_wait_slot), the fetch client       *)
(* (_sync_fetch), the evaluator (evaluate_trader), the coordinator         *)
(* (TokenProcessor.process_all_tokens / process_single_token) and the      *)
(* result store (the traders and processed_tokens tables).                 *)
(*                                                                         *)
(* Four specifications share the module:                                   *)
(*   Spec         the coordinator, its wallet tasks, the fetches, the store*)
(*   SpecEval     evaluate_trader's filter chain on bounded inputs         *)
(*   SpecDedup    fetch_traders_data's deduplication loop                  *)
(*   SpecLimiter  _wait_slot under concurrent callers and a discrete clock *)
(***************************************************************************)
EXTENDS Integers, Sequences, FiniteSets, TLC

\* ------------------------------------------------------------------ bounds
\* Longest holdings array the upstream returns to evaluate_trader.
MaxHold == 4
\* Longest raw holder list the upstream returns to fetch_traders_data.
MaxRaw == 4
\* Number of threads calling _wait_slot.
NumCallers == 2
\* Last instant of the discrete clock of SpecLimiter (one tick = 100 ms).
MaxTime == 5
\* Number of process_all_tokens runs (each on a fresh TokenProcessor).
MaxRuns == 2
\* Longest tokens.txt.
MaxTokens == 2
\* Wallet tasks created over a whole behaviour (sum of the deduplicated lists).
MaxTasks == 2
\* Consecutive HTTP 429 answers counted before the counter saturates.
RetryBound == 2
\* wallets of the target whose progress reports are followed
MaxProgress == 12
\* Attempts one _sync_fetch call is followed for.
MaxAttempts == 3

\* ------------------------------------------------------- program constants
\* evaluate_trader's defaults, in hundredths (0.75 -> 75, 0.30 -> 30).
MIN_PNL30 == 75
MIN_ROI == 30
TOP_N == 3
\* REQUEST_DELAY = 0.2 s (the second, effective assignment), in ticks.
REQUEST_DELAY == 2
\* CONCURRENCY_LIMIT = int(os.getenv("OMNI_CONCURRENCY", 7)): the configured
\* semaphore size; the model runs with the value 2.
CONCURRENCY_LIMIT == 2
\* multi-coin-processor.py, line 402: a report every 10 completions
PROGRESS_EVERY == 10

Min(a, b) == IF a < b THEN a ELSE b

Range(s) == {s[i] : i \in 1..Len(s)}

\* All sequences over S of length at most n.
SeqUpTo(S, n) == UNION {[1..k -> S] : k \in 0..n}

VARIABLES
    \* --- result store and target list (persist across runs)
    tokens_file,        \* tokens.txt: the token addresses, in file order
    processed_tokens,   \* table processed_tokens: set of rows
    traders,            \* table traders: set of rows
    \* --- TokenProcessor / process_all_tokens
    runs,               \* process_all_tokens calls made so far
    ppc,                \* where process_all_tokens stands
    unprocessed_tokens, \* the list computed at the start of the run
    loop_i,             \* index in unprocessed_tokens of the current target
    stop_processing,    \* self.stop_processing
    traders_data,       \* the deduplicated wallet list of the current target
    passed_traders,     \* nonlocal passed_traders
    completed,          \* nonlocal completed
    tasks,              \* one record per evaluate_with_progress task
    sem,                \* free permits of asyncio.Semaphore(self.concurrency)
    budget,             \* wallet tasks the upstream lists may still create
    hist,               \* history of the run (observations only)
    \* --- evaluate_trader on its own
    ev_in, ev_out,
    \* --- fetch_traders_data's loop on its own
    dd,
    \* --- _wait_slot on its own
    lim,
    \* --- evaluate_with_progress's counters on their own
    pg,
    \* --- _sync_fetch on its own
    ft,
    \* --- the web app's run_processor / stop_processor requests on their own
    web

storeVars == <<tokens_file, processed_tokens, traders>>
procVars == <<runs, ppc, unprocessed_tokens, loop_i, stop_processing,
              traders_data, passed_traders, completed, tasks, sem, budget, hist>>
vars == <<tokens_file, processed_tokens, traders, runs, ppc, unprocessed_tokens,
          loop_i, stop_processing, traders_data, passed_traders, completed,
          tasks, sem, budget, hist, ev_in, ev_out, dd, lim, pg, ft, web>>

\* ======================================================== evaluate_trader
\* A holding as the upstream sends it: roi is total_profit_pnl in hundredths;
\* numeric = FALSE is a value float() rejects (null, a non-numeric string).
Holding(r, n) == [roi |-> r, numeric |-> n]

RoiVals == {29, 30, 31}
PnlVals == {0, 74, 75, 76}
TagLists == {<<>>, <<"sandwich_bot">>, <<"smart_degen">>,
             <<"smart_degen", "sandwich_bot">>}
Holdings == {Holding(r, TRUE) : r \in RoiVals} \cup {Holding(0, FALSE)}

\* holdings[:top_n]
TopHold(holdings) == SubSeq(holdings, 1, Min(TOP_N, Len(holdings)))

\* The list comprehension building stats["top_holdings"] raises when float()
\* rejects a total_profit_pnl among the first top_n holdings.
StatsRaise(holdings) ==
    \E i \in 1..Len(TopHold(holdings)) : ~TopHold(holdings)[i].numeric

RoiLowAllHoldings(holdings) ==
    \A i \in 1..Len(holdings) : holdings[i].roi < MIN_ROI

\* if all(h["roi"] < min_roi for h in stats["top_holdings"])
RoiLow(holdings) ==
    \A i \in 1..Len(TopHold(holdings)) : TopHold(holdings)[i].roi < MIN_ROI

Pnl30LowStrict(pnl) == pnl < MIN_PNL30

\* if stats["pnl_pct_30d"] <= min_pnl30
Pnl30Low(pnl) == pnl <= MIN_PNL30

\* if "sandwich_bot" in stats["tags"]
HasBotTag(tags) == "sandwich_bot" \in Range(tags)

ApplyFiltersPnlFirst(tags, pnl, holdings) ==
    IF Pnl30Low(pnl) THEN "PNL30_LOW"
    ELSE IF HasBotTag(tags) THEN "TAG_sandwich_bot"
    ELSE IF RoiLow(holdings) THEN "ROI_LOW"
    ELSE "PASS"

\* Step 4 of evaluate_trader: the ordered filters, first match wins.
ApplyFilters(tags, pnl, holdings) ==
    IF HasBotTag(tags) THEN "TAG_sandwich_bot"
    ELSE IF Pnl30Low(pnl) THEN "PNL30_LOW"
    ELSE IF RoiLow(holdings) THEN "ROI_LOW"
    ELSE "PASS"

EvaluateTraderErrorCode(summary, holdings) ==
    IF summary.empty THEN "JSON_FAIL"
    ELSE IF StatsRaise(holdings) THEN "ERROR"
    ELSE ApplyFilters(summary.tags, summary.pnl_30d, holdings)

EvaluateTraderNoEmptyCheck(summary, holdings) ==
    IF StatsRaise(holdings) THEN "RAISE"
    ELSE ApplyFilters(summary.tags, summary.pnl_30d, holdings)

\* evaluate_trader once both fetches have returned: summary is the data
\* section of the period summary (empty = TRUE when it is falsy), holdings
\* the holdings array.  The result is a reason code, or "RAISE" when the
\* stats record cannot be built.
EvaluateTrader(summary, holdings) ==
    IF summary.empty THEN "JSON_FAIL"
    ELSE IF StatsRaise(holdings) THEN "RAISE"
    ELSE ApplyFilters(summary.tags, summary.pnl_30d, holdings)

\* The stats record evaluate_trader returns next to the reason code: {} at
\* line 329, else the dict of lines 336-352 (the fields the rules read).
\* Undefined when building the record raises.
EvaluateTraderStats(summary, holdings) ==
    IF summary.empty THEN <<>>
    ELSE [tags |-> summary.tags,
          pnl_pct_30d |-> summary.pnl_30d,
          top_holdings |-> [i \in 1..Len(TopHold(holdings)) |->
                                [roi |-> TopHold(holdings)[i].roi]]]

Summary(e, t, p) == [empty |-> e, tags |-> t, pnl_30d |-> p]
EmptySummary == Summary(TRUE, <<>>, 0)

EvalInputs ==
    {[summary |-> Summary(FALSE, t, p), holdings |-> h] :
        t \in TagLists, p \in PnlVals, h \in SeqUpTo(Holdings, MaxHold)}
    \cup {[summary |-> EmptySummary, holdings |-> <<>>]}

NoEval == [summary |-> EmptySummary, holdings |-> <<>>]

\* ==================================================== fetch_traders_data
Wallets == {"A", "B", "C"}

\* One element of the holders array: a dict with an address ("" when the
\* address is missing or empty), or something that is not a dict.
\* totalBoughtUSD stands for the trading figures the dict carries.
Entry(a) == [is_dict |-> TRUE, address |-> a, totalBoughtUSD |-> 100]
NonDict == [is_dict |-> FALSE, address |-> "", totalBoughtUSD |-> 0]
Entries == {Entry(a) : a \in Wallets \cup {""}} \cup {NonDict}

\* fetch_top500_traders: [h for h in holders if isinstance(h, dict) and h.get("address")]
RECURSIVE Top500Filter(_)
Top500Filter(holders) ==
    IF holders = <<>> THEN <<>>
    ELSE LET h == Head(holders)
             rest == Top500Filter(Tail(holders))
         IN IF h.is_dict /\ h.address # "" THEN <<h>> \o rest ELSE rest

\* One pass of the for loop's body after the stop check: acc holds
\* seen_addresses and unique_traders.
DedupStepForgetSeen(acc, trader) ==
    IF trader.is_dict /\ trader.address # "" /\ trader.address \notin acc.seen
    THEN [seen |-> acc.seen, unique |-> Append(acc.unique, trader)]
    ELSE acc

DedupStep(acc, trader) ==
    IF trader.is_dict /\ trader.address # "" /\ trader.address \notin acc.seen
    THEN [seen |-> acc.seen \cup {trader.address},
          unique |-> Append(acc.unique, trader)]
    ELSE acc

DedupStart == [seen |-> {}, unique |-> <<>>]

\* The whole loop with the stop flag never observed.
RECURSIVE DedupFrom(_, _)
DedupFrom(acc, list) ==
    IF list = <<>> THEN acc.unique
    ELSE DedupFrom(DedupStep(acc, Head(list)), Tail(list))

DedupLoop(list) == DedupFrom(DedupStart, list)

Addresses(list) == [i \in 1..Len(list) |-> list[i].address]

\* dd: the loop of fetch_traders_data on one upstream answer.
\*   holders  the array the upstream sent;  traders = Top500Filter(holders)
\*   i        the next element of traders;  acc: seen_addresses, unique_traders
\*   stop     self.stop_processing, which another thread may set at any time
\*   pc       "loop" | "returned";  result: the returned list
\*   cancelled: the loop returned [] at its stop check
DedupIdle ==
    [holders |-> <<>>, traders |-> <<>>, i |-> 1, acc |-> DedupStart,
     stop |-> FALSE, pc |-> "returned", result |-> <<>>, cancelled |-> FALSE]

InitDedupLoop ==
    dd \in {[DedupIdle EXCEPT !.holders = h, !.traders = Top500Filter(h),
                              !.pc = "loop"] : h \in SeqUpTo(Entries, MaxRaw)}

\* for trader in traders: if self.stop_processing: return [] ...
DedupIterate ==
    /\ dd.pc = "loop"
    /\ dd.i <= Len(dd.traders)
    /\ IF dd.stop
       THEN dd' = [dd EXCEPT !.pc = "returned", !.result = <<>>,
                             !.cancelled = TRUE]
       ELSE dd' = [dd EXCEPT !.acc = DedupStep(dd.acc, dd.traders[dd.i]),
                             !.i = dd.i + 1]

\* if not unique_traders: return [] ... return unique_traders
DedupReturn ==
    /\ dd.pc = "loop"
    /\ dd.i > Len(dd.traders)
    /\ dd' = [dd EXCEPT !.pc = "returned", !.result = dd.acc.unique]

\* TokenProcessor.stop() called from another thread while the loop runs.
DedupStopSet ==
    /\ dd.pc = "loop"
    /\ ~dd.stop
    /\ dd' = [dd EXCEPT !.stop = TRUE]

\* ============================================================== _wait_slot
Callers == 1..NumCallers
NoTime == 0 - 1

\* time.sleep(_next_allowed - now) when now < _next_allowed
SleepFor(now, next_allowed) == IF now < next_allowed THEN next_allowed - now ELSE 0

\* _next_allowed = time.time() + REQUEST_DELAY: clk is the clock read by this
\* statement, now the one read on entry.
NextAllowedStale(now, clk) == now + REQUEST_DELAY

NextAllowed(now, clk) == clk + REQUEST_DELAY

\* lim: the limiter and its callers.
\*   clock         wall clock, in ticks
\*   lock          0 when _lock is free, else the caller holding it
\*   next_allowed  _next_allowed
\*   pc[c]         "idle" | "sleeping" | "ready" | "released"
\*   now[c]        the clock read on entry;  wake[c]: when the sleep may end
\*   last_grant    the clock read by the last `_next_allowed = ...` statement
\*   last_return   the clock at the last return of _wait_slot
\*   grant_gap / return_gap: smallest distance seen between two successive
\*                 grants / returns (MaxTime + 1 while there were fewer than two)
\*   waited        some caller found the slot taken and slept
InitLimiterState ==
    [clock |-> 0, lock |-> 0, next_allowed |-> 0,
     pc |-> [c \in Callers |-> "idle"],
     now |-> [c \in Callers |-> 0], wake |-> [c \in Callers |-> 0],
     last_grant |-> NoTime, last_return |-> NoTime,
     grant_gap |-> MaxTime + 1, return_gap |-> MaxTime + 1, waited |-> FALSE]

Gap(prev, last, t) == IF last = NoTime THEN prev ELSE Min(prev, t - last)

\* with _lock: now = time.time(); if now < _next_allowed: time.sleep(...)
LimEnter(c) ==
    /\ lim.pc[c] = "idle"
    /\ lim.lock = 0
    /\ LET d == SleepFor(lim.clock, lim.next_allowed)
       IN lim' = [lim EXCEPT !.lock = c,
                             !.now[c] = lim.clock,
                             !.wake[c] = lim.clock + d,
                             !.pc[c] = IF d > 0 THEN "sleeping" ELSE "ready",
                             !.waited = lim.waited \/ d > 0]

\* time.sleep returns: never before the requested duration has passed.
LimWake(c) ==
    /\ lim.pc[c] = "sleeping"
    /\ lim.clock >= lim.wake[c]
    /\ lim' = [lim EXCEPT !.pc[c] = "ready"]

\* _next_allowed = time.time() + REQUEST_DELAY, then the lock is released.
LimGrant(c) ==
    /\ lim.pc[c] = "ready"
    /\ lim' = [lim EXCEPT !.next_allowed = NextAllowed(lim.now[c], lim.clock),
                          !.lock = 0,
                          !.pc[c] = "released",
                          !.grant_gap = Gap(lim.grant_gap, lim.last_grant, lim.clock),
                          !.last_grant = lim.clock]

\* _wait_slot returns to _sync_fetch.
LimReturn(c) ==
    /\ lim.pc[c] = "released"
    /\ lim' = [lim EXCEPT !.pc[c] = "idle",
                          !.return_gap = Gap(lim.return_gap, lim.last_return, lim.clock),
                          !.last_return = lim.clock]

\* Time passes; threads may be preempted between any two statements.
LimTick ==
    /\ lim.clock < MaxTime
    /\ lim' = [lim EXCEPT !.clock = lim.clock + 1]

\* ================================================= evaluate_with_progress
\* The counters of process_single_token while one target is evaluated, the
\* tasks taken as a count: each task runs evaluate_with_progress once, and
\* the statements after `await evaluate_and_save(...)` run in one piece of
\* the event loop.
\*   total         total_traders = len(traders_data)
\*   pending       tasks that have not finished yet
\*   completed     nonlocal completed
\*   passed        nonlocal passed_traders
\*   stop          self.stop_processing
\*   has_callback  a progress callback is registered (set_progress_callback)
\*   calls         progress_callback invocations so far
\*   last          the arguments of the latest invocation (<<>>: none yet)
ProgressIdle ==
    [total |-> 0, pending |-> 0, completed |-> 0, passed |-> 0,
     stop |-> FALSE, has_callback |-> FALSE, calls |-> 0, last |-> <<>>]

ProgressStart(n, cb) ==
    [ProgressIdle EXCEPT !.total = n, !.pending = n, !.has_callback = cb]

InitProgressState == pg \in {ProgressStart(n, cb) : n \in 1..MaxProgress, cb \in BOOLEAN}

\* Line 402: `completed % 10 == 0 or completed == total_traders`.
Due(c, t) == c % PROGRESS_EVERY = 0 \/ c = t

\* What evaluate_and_save did before it returned:
\*   "pass"     saved a PASS row and counted it (lines 367-369)
\*   "fail"     saved a row with another reason (line 367 or 392)
\*   "stopped"  saw the stop flag at line 347 and returned
\*   "throttle" its handler set the stop flag and returned (lines 375-380)
Returns == {"pass", "fail", "stopped", "throttle"}

\* Lines 400-406: evaluate_and_save returns, the task is counted and the
\* callback invoked when the count is due.
PgReturn(outcome) ==
    /\ pg.pending > 0
    /\ outcome = "stopped" => pg.stop
    /\ LET c == pg.completed + 1
           p == IF outcome = "pass" THEN pg.passed + 1 ELSE pg.passed
           call == Due(c, pg.total) /\ pg.has_callback
       IN pg' = [pg EXCEPT !.pending = @ - 1,
                           !.completed = c,
                           !.passed = p,
                           !.stop = @ \/ outcome = "throttle",
                           !.calls = IF call THEN @ + 1 ELSE @,
                           !.last = IF call THEN <<c, pg.total, p>> ELSE @]
    /\ UNCHANGED <<storeVars, procVars, ev_in, ev_out, dd, lim, ft, web>>

\* Lines 407-415: an exception leaves evaluate_and_save (its handler raised:
\* line 381 slices a wallet address that is not a string, line 392 fails in
\* the store).  The task is counted; a throttle text sets the stop flag.
PgRaise(throttle_text) ==
    /\ pg.pending > 0
    /\ pg' = [pg EXCEPT !.pending = @ - 1,
                        !.completed = @ + 1,
                        !.stop = @ \/ throttle_text]
    /\ UNCHANGED <<storeVars, procVars, ev_in, ev_out, dd, lim, ft, web>>

\* Lines 401-408: evaluate_and_save returned, the task is counted (line 401),
\* the count is due and the registered callback, called at line 406 with
\* (completed, total, passed), raises.  The except branch of line 407 covers
\* the whole try body, so line 408 counts the task once more; a throttle
\* text in the exception sets the stop flag.
PgReportRaises(outcome, throttle_text) ==
    /\ pg.pending > 0
    /\ pg.has_callback
    /\ outcome = "stopped" => pg.stop
    /\ LET c == pg.completed + 1
           p == IF outcome = "pass" THEN pg.passed + 1 ELSE pg.passed
       IN /\ Due(c, pg.total)
          /\ pg' = [pg EXCEPT !.pending = @ - 1,
                              !.completed = c + 1,
                              !.passed = p,
                              !.stop = @ \/ outcome = "throttle" \/ throttle_text,
                              !.calls = @ + 1,
                              !.last = <<c, pg.total, p>>]
    /\ UNCHANGED <<storeVars, procVars, ev_in, ev_out, dd, lim, ft, web>>

\* Lines 398-399: the task sees the stop flag and returns uncounted.
PgSkip ==
    /\ pg.pending > 0
    /\ pg.stop
    /\ pg' = [pg EXCEPT !.pending = @ - 1]
    /\ UNCHANGED <<storeVars, procVars, ev_in, ev_out, dd, lim, ft, web>>

\* stop() from another thread.
PgStop ==
    /\ pg.pending > 0
    /\ ~pg.stop
    /\ pg' = [pg EXCEPT !.stop = TRUE]
    /\ UNCHANGED <<storeVars, procVars, ev_in, ev_out, dd, lim, ft, web>>

\* ============================================================= _sync_fetch
\* _sync_fetch run by two worker threads (asyncio.to_thread) that
\* share the rate limiter and the stop predicate `lambda: self.stop_processing`.
\* _wait_slot is taken in one step here; its timing is SpecLimiter's.
\*   stop  the value the stop predicate returns
\*   th    per thread:
\*     pc            "top"       at `while True` (line 77)
\*                   "check"     _wait_slot returned, before the stop check
\*                   "inflight"  scraper.get is sent, no answer yet
\*                   "sleep429" | "sleepCode" | "sleepJson" | "sleepExc"
\*                   "returned"  line 109 returned the data section
\*                   "cancelled" line 83 raised "Processing stopped by user"
\*                   "raised"    another exception left the function
\*     attempt       the local counter of line 78
\*     acquired      _wait_slot calls that returned to this thread
\*     sent          scraper.get calls made by this thread
\*     resp_bound    the local `resp` has been assigned (line 86 returned once)
\*     last          the latest answer handled ("none" before the first)
\*     only429       every answer handled so far was HTTP 429
\*     stop_at_fail  the stop predicate was true when the latest failed
\*                   attempt chose its backoff
Fetchers == {1, 2}

NewFetch ==
    [pc |-> "top", attempt |-> 0, acquired |-> 0, sent |-> 0,
     resp_bound |-> FALSE, last |-> "none", only429 |-> TRUE,
     stop_at_fail |-> FALSE]

FetchIdle == [stop |-> FALSE, th |-> <<>>]

InitFetchState == ft = [stop |-> FALSE, th |-> [c \in Fetchers |-> NewFetch]]

FetchSleeps == {"sleep429", "sleepCode", "sleepJson", "sleepExc"}

\* What one attempt meets after the request is sent:
\*   "ok"      status not 429, raise_for_status passes, the body parses,
\*             payload code is 0 (or absent)
\*   "429"     resp.status_code == 429
\*   "code"    payload code != 0
\*   "json"    resp.json() raises (the body does not parse)
\*   "status"  raise_for_status raises HTTPError
\*   "exc"     scraper.get raises an exception outside the ValueError family
\*             (connection error, timeout)
\*   "valerr"  scraper.get raises an exception of the ValueError family
\*             (requests' InvalidSchema / InvalidURL on a redirect,
\*             InvalidHeader on a header of GMGN_HEADERS_JSON)
Answers == {"ok", "429", "code", "json", "status", "exc", "valerr"}

\* Lines 78-79: attempt += 1; _wait_slot().
SyncFetchWaitSlot(c) ==
    /\ ft.th[c].pc = "top"
    /\ ft.th[c].attempt < MaxAttempts
    /\ ft' = [ft EXCEPT !.th[c].pc = "check",
                        !.th[c].attempt = @ + 1,
                        !.th[c].acquired = @ + 1]
    /\ UNCHANGED <<storeVars, procVars, ev_in, ev_out, dd, lim, pg, web>>

SyncFetchStopCheckAfterSend(c) ==
    /\ ft.th[c].pc = "check"
    /\ ft' = [ft EXCEPT !.th[c].pc = IF ft.stop THEN "cancelled" ELSE "inflight",
                        !.th[c].sent = @ + 1]
    /\ UNCHANGED <<storeVars, procVars, ev_in, ev_out, dd, lim, pg, web>>

\* Lines 82-86: the stop check, then scraper.get is called.
SyncFetchStopCheck(c) ==
    /\ ft.th[c].pc = "check"
    /\ ft' = IF ft.stop
             THEN [ft EXCEPT !.th[c].pc = "cancelled"]
             ELSE [ft EXCEPT !.th[c].pc = "inflight", !.th[c].sent = @ + 1]
    /\ UNCHANGED <<storeVars, procVars, ev_in, ev_out, dd, lim, pg, web>>

\* Lines 86-122, where the attempt goes after its answer.  HTTP 429 with the
\* stop predicate true: the raise of line 91 is inside the try and caught at
\* line 119, which sleeps 5 s.  "valerr" is caught at line 111, whose body
\* reads resp.text (line 114): with resp unassigned that read raises
\* UnboundLocalError, which leaves the function.
AfterAnswer(answer, stopped, resp_bound) ==
    CASE answer = "ok" -> "returned"
      [] answer = "429" -> IF stopped THEN "sleepExc" ELSE "sleep429"
      [] answer = "code" -> "sleepCode"
      [] answer = "json" -> "sleepJson"
      [] answer = "valerr" -> IF resp_bound THEN "sleepJson" ELSE "raised"
      [] OTHER -> "sleepExc"

SyncFetchAnswerGivesUp(c, answer) ==
    /\ ft.th[c].pc = "inflight"
    /\ ft' = [ft EXCEPT
                !.th[c].pc = IF answer = "429" /\ ft.th[c].attempt > 1
                             THEN "raised"
                             ELSE AfterAnswer(answer, ft.stop, ft.th[c].resp_bound),
                !.th[c].resp_bound = @ \/ answer \notin {"exc", "valerr"},
                !.th[c].last = answer,
                !.th[c].only429 = @ /\ answer = "429",
                !.th[c].stop_at_fail = ft.stop /\ answer # "ok"]
    /\ UNCHANGED <<storeVars, procVars, ev_in, ev_out, dd, lim, pg, web>>

SyncFetchAnswerRetriesOk(c, answer) ==
    /\ ft.th[c].pc = "inflight"
    /\ ft' = [ft EXCEPT
                !.th[c].pc = IF answer = "ok" /\ ft.th[c].attempt > 1
                             THEN "sleepCode"
                             ELSE AfterAnswer(answer, ft.stop, ft.th[c].resp_bound),
                !.th[c].resp_bound = @ \/ answer \notin {"exc", "valerr"},
                !.th[c].last = answer,
                !.th[c].only429 = @ /\ answer = "429",
                !.th[c].stop_at_fail = ft.stop /\ answer # "ok"]
    /\ UNCHANGED <<storeVars, procVars, ev_in, ev_out, dd, lim, pg, web>>

SyncFetchAnswer(c, answer) ==
    /\ ft.th[c].pc = "inflight"
    /\ ft' = [ft EXCEPT
                !.th[c].pc = AfterAnswer(answer, ft.stop, ft.th[c].resp_bound),
                !.th[c].resp_bound = @ \/ answer \notin {"exc", "valerr"},
                !.th[c].last = answer,
                !.th[c].only429 = @ /\ answer = "429",
                !.th[c].stop_at_fail = ft.stop /\ answer # "ok"]
    /\ UNCHANGED <<storeVars, procVars, ev_in, ev_out, dd, lim, pg, web>>

SyncFetchWakeNoSlot(c) ==
    /\ ft.th[c].pc \in FetchSleeps
    /\ ft.th[c].attempt < MaxAttempts
    /\ ft' = [ft EXCEPT !.th[c].pc = "check", !.th[c].attempt = @ + 1]
    /\ UNCHANGED <<storeVars, procVars, ev_in, ev_out, dd, lim, pg, web>>

\* time.sleep returns (lines 96-97, 106-107, 118, 122): back to `while True`.
SyncFetchWake(c) ==
    /\ ft.th[c].pc \in FetchSleeps
    /\ ft' = [ft EXCEPT !.th[c].pc = "top"]
    /\ UNCHANGED <<storeVars, procVars, ev_in, ev_out, dd, lim, pg, web>>

\* stop() (or a handler) sets self.stop_processing while fetches run.
SyncFetchStop ==
    /\ ~ft.stop
    /\ \E c \in Fetchers : ft.th[c].pc \notin {"returned", "cancelled", "raised"}
    /\ ft' = [ft EXCEPT !.stop = TRUE]
    /\ UNCHANGED <<storeVars, procVars, ev_in, ev_out, dd, lim, pg, web>>

\* ===================================== web-app.py: run_processor / stop_processor
\* The POST handlers of /api/run_processor and /api/stop_processor, each
\* request served by a thread of its own (app.run, line 686), and the
\* module globals they share.
\*   processing_active    the global flag of line 43
\*   processor_instance   the global of line 44: the request whose
\*                        TokenProcessor it refers to, 0 for None
\*   req[r]               one run_processor request:
\*     pc    "none"      not made yet
\*           "passed"    found processing_active false at line 391
\*           "setup"     has set processing_active (line 394)
\*           "running"   asyncio.run(process_all_tokens()) is executing
\*           "rejected"  answered 'Processor is already running'
\*           "returned"  the run is over and the finally block has run
\*     stop  the stop flag of the request's own TokenProcessor
\*   stops                stop_processor requests that stopped a processor
\*   fatals               fatal callback invocations
Requests == {1, 2, 3}

NewRequest == [pc |-> "none", stop |-> FALSE]

WebIdle ==
    [processing_active |-> FALSE, processor_instance |-> 0, req |-> <<>>,
     stops |-> FALSE, fatals |-> FALSE]

InitWebState ==
    web = [WebIdle EXCEPT !.req = [r \in Requests |-> NewRequest]]

\* Lines 391-392: `if processing_active: return ... 'Processor is already
\* running'`.
RunProcessorGuard(r) ==
    /\ web.req[r].pc = "none"
    /\ web' = [web EXCEPT !.req[r].pc = IF web.processing_active
                                        THEN "rejected" ELSE "passed"]
    /\ UNCHANGED <<storeVars, procVars, ev_in, ev_out, dd, lim, pg, ft>>

\* Lines 394-405: processing_active = True.
RunProcessorActivate(r) ==
    /\ web.req[r].pc = "passed"
    /\ web' = [web EXCEPT !.req[r].pc = "setup", !.processing_active = TRUE]
    /\ UNCHANGED <<storeVars, procVars, ev_in, ev_out, dd, lim, pg, ft>>

\* Lines 432-484: processor_instance = TokenProcessor() (stop flag unset),
\* the callbacks are registered and asyncio.run starts the run.
RunProcessorStart(r) ==
    /\ web.req[r].pc = "setup"
    /\ web' = [web EXCEPT !.req[r] = [pc |-> "running", stop |-> FALSE],
                          !.processor_instance = r]
    /\ UNCHANGED <<storeVars, procVars, ev_in, ev_out, dd, lim, pg, ft>>

\* Lines 484-507: process_all_tokens returns (its list is exhausted, or its
\* loop saw the stop flag), the response is built and the finally block sets
\* processing_active = False.
RunProcessorReturns(r) ==
    /\ web.req[r].pc = "running"
    /\ web' = [web EXCEPT !.req[r].pc = "returned", !.processing_active = FALSE]
    /\ UNCHANGED <<storeVars, procVars, ev_in, ev_out, dd, lim, pg, ft>>

\* The stop flags after processor_instance.stop() (when the global is set)
\* and after the processor `own` set its own flag (0: none did).
StopInstance(reqs, instance, own) ==
    [q \in DOMAIN reqs |->
        IF q = instance \/ q = own THEN [reqs[q] EXCEPT !.stop = TRUE]
        ELSE reqs[q]]

\* Lines 515-527: with processing_active and processor_instance both set the
\* processor is told to stop and both globals are reset at once; the run
\* itself is still executing.  (Otherwise: 'Processor not running'.)
StopProcessor ==
    /\ web.processing_active
    /\ web.processor_instance # 0
    /\ web' = [web EXCEPT !.req = StopInstance(@, web.processor_instance, 0),
                          !.processing_active = FALSE,
                          !.processor_instance = 0,
                          !.stops = TRUE]
    /\ UNCHANGED <<storeVars, procVars, ev_in, ev_out, dd, lim, pg, ft>>

\* Lines 457-463, called by the run of request r (multi-coin-processor.py
\* lines 303-310, 377-379, 411-413, 462-464, each after the run set its own
\* stop flag): processing_active = False, the processor the global refers
\* to is stopped, the global reset.
FatalCallback(r) ==
    /\ web.req[r].pc = "running"
    /\ web' = [web EXCEPT !.req = StopInstance(@, web.processor_instance, r),
                          !.processing_active = FALSE,
                          !.processor_instance = 0,
                          !.fatals = TRUE]
    /\ UNCHANGED <<storeVars, procVars, ev_in, ev_out, dd, lim, pg, ft>>

\* ============================================================ result store
TokenIds == {"T1", "T2", "T3"}

\* A fourth address, for the target lists in which one address is the
\* beginning of another: the text of T1 followed by one more character.
LongerAddress == "T12"

AllAddresses == TokenIds \cup {LongerAddress}

\* The characters of an address.
AddressText(a) ==
    CASE a = "T1" -> <<"T", "1">>
      [] a = "T2" -> <<"T", "2">>
      [] a = "T3" -> <<"T", "3">>
      [] a = "T12" -> <<"T", "1", "2">>

\* str.startswith, on the line "address,name" of tokens.txt and the address
\* of the request (web-app.py, line 674): the line begins with the
\* characters of the address.  The "," that follows the address in the line
\* is in no address, so the test is decided within the address of the line.
startswith(line, prefix) ==
    LET l == AddressText(line)
        p == AddressText(prefix)
    IN  /\ Len(p) <= Len(l)
        /\ SubSeq(l, 1, Len(p)) = p

\* INSERT OR REPLACE INTO traders ...: PRIMARY KEY (wallet_address, token_address)
save_trader_data_append(rows, wallet, token, result, bought) ==
    rows \cup {[wallet_address |-> wallet, token_address |-> token,
                evaluation_result |-> result, total_bought_usd |-> bought]}

save_trader_data(rows, wallet, token, result, bought) ==
    {r \in rows : ~(r.wallet_address = wallet /\ r.token_address = token)}
    \cup {[wallet_address |-> wallet, token_address |-> token,
           evaluation_result |-> result, total_bought_usd |-> bought]}

mark_token_processed_no_counts(rows, token, total_holders, passed) ==
    {r \in rows : r.token_address # token}
    \cup {[token_address |-> token, total_holders |-> 0, passed_traders |-> 0]}

\* INSERT OR REPLACE INTO processed_tokens ...: token_address PRIMARY KEY
mark_token_processed(rows, token, total_holders, passed) ==
    {r \in rows : r.token_address # token}
    \cup {[token_address |-> token, total_holders |-> total_holders,
           passed_traders |-> passed]}

\* SELECT token_address FROM processed_tokens
get_processed_token_addresses(rows) == {r.token_address : r \in rows}

\* [(addr, name) for addr, name in tokens if addr not in processed_tokens]
UnprocessedTokensAll(file, rows) == file

UnprocessedTokens(file, rows) ==
    SelectSeq(file, LAMBDA t : t \notin get_processed_token_addresses(rows))

\* ============================================= TokenProcessor: the pipeline
\* tokens.txt: add_token appends without looking for an earlier line, so an
\* address may occur twice.  Up to renaming the tokens, every file is one
\* whose tokens first occur in the order T1, T2, T3.
FirstIndex(s, x) == CHOOSE i \in 1..Len(s) : s[i] = x /\ \A j \in 1..(i - 1) : s[j] # x

InOrder(s, names) ==
    \A i \in 1..Len(s) : \E k \in 1..Len(names) :
        /\ s[i] = names[k]
        /\ \A j \in 1..(k - 1) : \E m \in 1..(i - 1) : s[m] = names[j]

TokenFiles == {f \in SeqUpTo(TokenIds, MaxTokens) : InOrder(f, <<"T1", "T2", "T3">>)}

\* The holder arrays the upstream sends in Spec: up to renaming the wallets,
\* those whose wallets first occur in the order A, B, C.
HolderLists == {h \in SeqUpTo(Entries, MaxRaw) :
                    InOrder(Addresses(Top500Filter(h)), <<"A", "B", "C">>)}

\* What the upstream sends for one wallet in Spec: a small part of EvalInputs
\* with every reason code and the raising case in it.
PipelineInputs ==
    {x \in EvalInputs :
        /\ ~x.summary.empty
        /\ Len(x.holdings) <= 1
        /\ x.summary.pnl_30d \in {75, 76}
        /\ x.summary.tags \in {<<>>, <<"sandwich_bot">>}
        /\ \A i \in 1..Len(x.holdings) : x.holdings[i].roi \in {0, 29, 30}}

\* A task of evaluate_with_progress(trader_data, index):
\*   pc     "created"  the task exists and has not run yet
\*          "semwait"  inside evaluate_and_save, waiting at `async with sem`
\*          "attempt"  _sync_fetch at the top of its loop (before _wait_slot)
\*          "inflight" the request is sent, the response not yet there
\*          "sleep429" | "sleepCode" | "sleepJson" | "sleepExc": backing off
\*          "ended"    the task is over
\*   phase  "summary" | "holdings": which fetch of evaluate_trader is running
NewTask == [pc |-> "created", phase |-> "summary"]

\* hist, observations of the current run:
\*   user_stopped  stop() was called
\*   fatal         the fatal callback was invoked
\*   bullx429      the wallet-list fetch raised a throttle signal
\*   eval429       a wallet evaluation raised an exception with throttle text
\*   target_failed process_single_token raised before its wallet-list fetch
\*   only429       every response to a wallet-statistics request was HTTP 429
\*   n429          consecutive HTTP 429 answers to the running fetch of the
\*                 first wallet's task, counted up to RetryBound
\* and of the whole behaviour:
\*   clean_run     the first run that ended with the stop flag unset (0: none)
\*   replaced      save_trader_data found a row of the same key in the table
\*   fails         for each watched task (none in Spec), the failures its
\*                 fetches met, in order
\*   late_pass     a PASS row was saved with the stop flag already set
\*   pass_written  rows saved with the reason PASS since the current target's
\*                 tasks were created
\*   removed       a remove_token request deleted a checkpoint together with
\*                 outcome rows
NewRunHist(h) ==
    [h EXCEPT !.user_stopped = FALSE, !.fatal = FALSE, !.bullx429 = FALSE,
              !.eval429 = FALSE, !.target_failed = FALSE,
              !.only429 = TRUE, !.n429 = 0, !.late_pass = FALSE]

InitHist ==
    [user_stopped |-> FALSE, fatal |-> FALSE, bullx429 |-> FALSE,
     eval429 |-> FALSE, target_failed |-> FALSE,
     only429 |-> TRUE, n429 |-> 0, clean_run |-> 0, replaced |-> FALSE,
     fails |-> <<>>, pass_written |-> 0, removed |-> FALSE,
     late_pass |-> FALSE]

otherVarsIdle ==
    /\ ev_in = NoEval /\ ev_out = "none"
    /\ dd = DedupIdle
    /\ lim = InitLimiterState
    /\ pg = ProgressIdle
    /\ ft = FetchIdle
    /\ web = WebIdle

procIdle ==
    /\ runs = 0 /\ ppc = "idle"
    /\ unprocessed_tokens = <<>> /\ loop_i = 1
    /\ stop_processing = FALSE
    /\ traders_data = <<>> /\ passed_traders = 0 /\ completed = 0
    /\ tasks = <<>> /\ sem = 0
    /\ budget = MaxTasks
    /\ hist = InitHist

storeEmpty ==
    /\ processed_tokens = {}
    /\ traders = {}

Init ==
    /\ tokens_file \in TokenFiles
    /\ storeEmpty
    /\ procIdle
    /\ otherVarsIdle

otherUnchanged == UNCHANGED <<ev_in, ev_out, dd, lim, pg, ft, web>>

CurrentToken == unprocessed_tokens[loop_i]

\* TokenProcessor() followed by process_all_tokens(), down to the for loop.
StartRun ==
    /\ ppc = "idle"
    /\ runs < MaxRuns
    /\ runs' = runs + 1
    /\ stop_processing' = FALSE
    /\ LET unprocessed == UnprocessedTokens(tokens_file, processed_tokens)
       IN /\ unprocessed_tokens' = unprocessed
          /\ loop_i' = 1
          /\ ppc' = IF unprocessed = <<>> THEN "idle" ELSE "loop"
          /\ hist' = [NewRunHist(hist) EXCEPT
                        !.clean_run = IF @ = 0 /\ unprocessed = <<>>
                                      THEN runs + 1 ELSE @]
    /\ UNCHANGED <<storeVars, traders_data, passed_traders, completed, tasks,
                   sem, budget>>
    /\ otherUnchanged

StartTokenNoStopCheck ==
    /\ ppc = "loop"
    /\ loop_i <= Len(unprocessed_tokens)
    /\ ppc' = "fetching"
    /\ UNCHANGED <<storeVars, runs, unprocessed_tokens, loop_i, stop_processing,
                   traders_data, passed_traders, completed, tasks, sem, budget,
                   hist>>
    /\ UNCHANGED <<ev_in, ev_out, dd, lim, pg, ft, web>>

\* One pass of the for loop: `if self.stop_processing: break`, else
\* process_single_token up to `await self.fetch_traders_data(...)`.
StartToken ==
    /\ ppc = "loop"
    /\ loop_i <= Len(unprocessed_tokens)
    /\ ~stop_processing
    /\ ppc' = "fetching"
    /\ UNCHANGED <<storeVars, runs, unprocessed_tokens, loop_i, stop_processing,
                   traders_data, passed_traders, completed, tasks, sem, budget,
                   hist>>
    /\ otherUnchanged

\* The loop ends (exhausted, or the break) and print_summary returns.
FinishRun ==
    /\ ppc = "loop"
    /\ loop_i > Len(unprocessed_tokens) \/ stop_processing
    /\ ppc' = "idle"
    /\ unprocessed_tokens' = <<>>
    /\ loop_i' = 1
    /\ hist' = [hist EXCEPT !.clean_run = IF @ = 0 /\ ~stop_processing
                                          THEN runs ELSE @]
    /\ UNCHANGED <<storeVars, runs, stop_processing,
                   traders_data, passed_traders, completed, tasks, sem, budget>>
    /\ otherUnchanged

AfterFetchTradersSkipsEmpty(result) ==
    IF result = <<>>
    THEN /\ loop_i' = loop_i + 1
         /\ ppc' = "loop"
         /\ UNCHANGED <<processed_tokens, traders_data, passed_traders,
                        completed, tasks, sem, budget>>
    ELSE /\ traders_data' = result
         /\ tasks' = [i \in 1..Len(result) |-> [pc |-> "created", phase |-> "summary"]]
         /\ sem' = CONCURRENCY_LIMIT
         /\ passed_traders' = 0
         /\ completed' = 0
         /\ budget' = budget - Len(result)
         /\ ppc' = "evaluating"
         /\ UNCHANGED <<processed_tokens, loop_i>>

\* process_single_token after fetch_traders_data returned `result`:
\* the 0/0 checkpoint of lines 329-338, or the tasks of line 416.
AfterFetchTraders(result) ==
    IF result = <<>>
    THEN /\ processed_tokens' = mark_token_processed(processed_tokens, CurrentToken, 0, 0)
         /\ loop_i' = loop_i + 1
         /\ ppc' = "loop"
         /\ UNCHANGED <<traders_data, passed_traders, completed, tasks, sem, budget>>
    ELSE /\ traders_data' = result
         /\ tasks' = [i \in 1..Len(result) |-> NewTask]
         /\ sem' = CONCURRENCY_LIMIT
         /\ passed_traders' = 0
         /\ completed' = 0
         /\ budget' = budget - Len(result)
         /\ ppc' = "evaluating"
         /\ UNCHANGED <<processed_tokens, loop_i>>

\* fetch_traders_data when fetch_top500_traders returns: the loop runs in one
\* piece of the event loop; a stop flag set before it starts is seen at its
\* first stop check.
fetch_traders_data(holders) ==
    IF stop_processing THEN <<>> ELSE DedupLoop(Top500Filter(holders))

BullxList(holders) ==
    /\ ppc = "fetching"
    /\ Len(DedupLoop(Top500Filter(holders))) <= budget
    /\ AfterFetchTraders(fetch_traders_data(holders))
    /\ UNCHANGED <<tokens_file, traders, runs, unprocessed_tokens,
                   stop_processing, hist>>
    /\ otherUnchanged

BullxThrottledNoCheckpoint ==
    /\ ppc = "fetching"
    /\ stop_processing' = TRUE
    /\ hist' = [hist EXCEPT !.fatal = TRUE, !.bullx429 = TRUE]
    /\ loop_i' = loop_i + 1
    /\ ppc' = "loop"
    /\ UNCHANGED <<storeVars, runs, unprocessed_tokens, traders_data,
                   passed_traders, completed, tasks, sem, budget>>
    /\ UNCHANGED <<ev_in, ev_out, dd, lim, pg, ft, web>>

\* fetch_top500_traders raises a throttle signal (HTTP 429 from
\* raise_for_status, or a text with '429' / 'rate limit'): lines 301-310.
BullxThrottled ==
    /\ ppc = "fetching"
    /\ stop_processing' = TRUE
    /\ hist' = [hist EXCEPT !.fatal = TRUE, !.bullx429 = TRUE]
    /\ AfterFetchTraders(<<>>)
    /\ UNCHANGED <<tokens_file, traders, runs, unprocessed_tokens>>
    /\ otherUnchanged

\* fetch_top500_traders raises anything else: line 312.
BullxError ==
    /\ ppc = "fetching"
    /\ AfterFetchTraders(<<>>)
    /\ UNCHANGED <<tokens_file, traders, runs, unprocessed_tokens,
                   stop_processing, hist>>
    /\ otherUnchanged

TaskIds == 1..Len(tasks)

\* asyncio runs the first step of every task created at line 416 before it
\* handles the completion of any worker thread.
AllStarted == \A j \in TaskIds : tasks[j].pc # "created"

EndedTask == [pc |-> "ended", phase |-> "summary"]

\* hist.n429 after task i's fetch got an answer (a 429 or not).
Count429(i, is429) ==
    IF i # 1 THEN hist.n429
    ELSE IF is429 THEN Min(hist.n429 + 1, RetryBound) ELSE 0

\* evaluate_with_progress, lines 397-400: the stop check, then
\* evaluate_and_save up to `async with sem`.
TaskStart(i) ==
    /\ ppc = "evaluating"
    /\ tasks[i].pc = "created"
    /\ \A j \in 1..(i - 1) : tasks[j].pc # "created"
    /\ tasks' = [tasks EXCEPT ![i] = IF stop_processing THEN EndedTask
                                     ELSE [@ EXCEPT !.pc = "semwait"]]
    /\ UNCHANGED <<storeVars, runs, ppc, unprocessed_tokens, loop_i,
                   stop_processing, traders_data, passed_traders, completed,
                   sem, budget, hist>>
    /\ otherUnchanged

SemEnterNoWait(i) ==
    /\ ppc = "evaluating"
    /\ tasks[i].pc = "semwait"
    /\ IF stop_processing
       THEN /\ tasks' = [tasks EXCEPT ![i] = [pc |-> "ended", phase |-> "summary"]]
            /\ completed' = completed + 1
            /\ sem' = sem
       ELSE /\ tasks' = [tasks EXCEPT ![i] = [pc |-> "attempt", phase |-> "summary"]]
            /\ completed' = completed
            /\ sem' = sem - 1
    /\ UNCHANGED <<storeVars, runs, ppc, unprocessed_tokens, loop_i,
                   stop_processing, traders_data, passed_traders, budget, hist>>
    /\ UNCHANGED <<ev_in, ev_out, dd, lim, pg, ft, web>>

SemEnterNoStopCheck(i) ==
    /\ ppc = "evaluating"
    /\ tasks[i].pc = "semwait"
    /\ sem > 0
    /\ tasks' = [tasks EXCEPT ![i] = [pc |-> "attempt", phase |-> "summary"]]
    /\ sem' = sem - 1
    /\ UNCHANGED <<storeVars, runs, ppc, unprocessed_tokens, loop_i, completed,
                   stop_processing, traders_data, passed_traders, budget, hist>>
    /\ UNCHANGED <<ev_in, ev_out, dd, lim, pg, ft, web>>

\* `async with sem:` is entered; lines 347-349: the stop check (return, and
\* back in evaluate_with_progress completed += 1), else evaluate_trader
\* starts its summary fetch in a worker thread.
SemEnter(i) ==
    /\ ppc = "evaluating"
    /\ tasks[i].pc = "semwait"
    /\ sem > 0
    /\ IF stop_processing
       THEN /\ tasks' = [tasks EXCEPT ![i] = EndedTask]
            /\ completed' = completed + 1
            /\ sem' = sem
       ELSE /\ tasks' = [tasks EXCEPT ![i] = [pc |-> "attempt", phase |-> "summary"]]
            /\ completed' = completed
            /\ sem' = sem - 1
    /\ UNCHANGED <<storeVars, runs, ppc, unprocessed_tokens, loop_i,
                   stop_processing, traders_data, passed_traders, budget, hist>>
    /\ otherUnchanged

FetchAttemptRecordsError(i) ==
    /\ ppc = "evaluating"
    /\ tasks[i].pc = "attempt"
    /\ IF stop_processing
       THEN /\ \A j \in 1..Len(tasks) : tasks[j].pc # "created"
            /\ tasks' = [tasks EXCEPT ![i] = [pc |-> "ended", phase |-> "summary"]]
            /\ traders' = save_trader_data(traders, traders_data[i].address,
                                           unprocessed_tokens[loop_i], "ERROR", 0)
            /\ hist' = [hist EXCEPT !.fatal = TRUE]
            /\ sem' = sem + 1
            /\ completed' = completed + 1
       ELSE /\ tasks' = [tasks EXCEPT ![i].pc = "inflight"]
            /\ UNCHANGED <<traders, hist, sem, completed>>
    /\ UNCHANGED <<tokens_file, processed_tokens, runs, ppc, unprocessed_tokens,
                   loop_i, stop_processing, traders_data, passed_traders, budget>>
    /\ UNCHANGED <<ev_in, ev_out, dd, lim, pg, ft, web>>

FetchAttemptIgnoresStop(i) ==
    /\ ppc = "evaluating"
    /\ tasks[i].pc = "attempt"
    /\ tasks' = [tasks EXCEPT ![i].pc = "inflight"]
    /\ UNCHANGED <<storeVars, runs, ppc, unprocessed_tokens, loop_i,
                   stop_processing, hist, sem, completed,
                   traders_data, passed_traders, budget>>
    /\ UNCHANGED <<ev_in, ev_out, dd, lim, pg, ft, web>>

\* _sync_fetch, lines 78-86: _wait_slot, then the stop check.  When the flag
\* is set the fetch raises "Processing stopped by user"; evaluate_and_save's
\* handler (lines 375-380) sets the flag, calls the fatal callback and
\* returns without saving; evaluate_with_progress counts the task.
FetchAttempt(i) ==
    /\ ppc = "evaluating"
    /\ tasks[i].pc = "attempt"
    /\ IF stop_processing
       THEN /\ AllStarted
            /\ tasks' = [tasks EXCEPT ![i] = EndedTask]
            /\ stop_processing' = TRUE
            /\ hist' = [hist EXCEPT !.fatal = TRUE, !.n429 = Count429(i, FALSE)]
            /\ sem' = sem + 1
            /\ completed' = completed + 1
       ELSE /\ tasks' = [tasks EXCEPT ![i].pc = "inflight"]
            /\ UNCHANGED <<stop_processing, hist, sem, completed>>
    /\ UNCHANGED <<storeVars, runs, ppc, unprocessed_tokens, loop_i,
                   traders_data, passed_traders, budget>>
    /\ otherUnchanged

\* The attempt fails, lines 88-122.
\*   "429"   HTTP 429: when the stop callback is set the raise of line 91 is
\*           caught by `except Exception` (line 119), which sleeps 5 s;
\*           else sleep 3 + uniform(0, 2)
\*   "code"  payload code != 0: sleep 2 + uniform(0, 1)
\*   "json"  the body does not parse: sleep 2
\*   "exc"   transport error or raise_for_status: sleep 5
Failures == {"429", "code", "json", "exc"}

BackoffOf(failure, stopped) ==
    CASE failure = "429" -> IF stopped THEN "sleepExc" ELSE "sleep429"
      [] failure = "code" -> "sleepCode"
      [] failure = "json" -> "sleepJson"
      [] OTHER -> "sleepExc"

Sleeps == {"sleep429", "sleepCode", "sleepJson", "sleepExc"}

FetchFailResendsAtOnce(i, failure) ==
    /\ ppc = "evaluating"
    /\ tasks[i].pc = "inflight"
    /\ tasks' = [tasks EXCEPT ![i].pc = "attempt"]
    /\ hist' = [hist EXCEPT !.only429 = @ /\ failure = "429",
                            !.n429 = Count429(i, failure = "429")]
    /\ UNCHANGED <<storeVars, runs, ppc, unprocessed_tokens, loop_i,
                   stop_processing, traders_data, passed_traders, completed,
                   sem, budget>>
    /\ UNCHANGED <<ev_in, ev_out, dd, lim, pg, ft, web>>

FetchFail(i, failure) ==
    /\ ppc = "evaluating"
    /\ tasks[i].pc = "inflight"
    /\ tasks' = [tasks EXCEPT ![i].pc = BackoffOf(failure, stop_processing)]
    /\ hist' = [hist EXCEPT !.only429 = @ /\ failure = "429",
                            !.n429 = Count429(i, failure = "429"),
                            !.fails = IF i \in DOMAIN @
                                      THEN [@ EXCEPT ![i] = Append(@, failure)]
                                      ELSE @]
    /\ UNCHANGED <<storeVars, runs, ppc, unprocessed_tokens, loop_i,
                   stop_processing, traders_data, passed_traders, completed,
                   sem, budget>>
    /\ otherUnchanged

\* time.sleep returns and the loop starts its next attempt.
FetchWake(i) ==
    /\ ppc = "evaluating"
    /\ tasks[i].pc \in Sleeps
    /\ tasks' = [tasks EXCEPT ![i].pc = "attempt"]
    /\ UNCHANGED <<storeVars, runs, ppc, unprocessed_tokens, loop_i,
                   stop_processing, traders_data, passed_traders, completed,
                   sem, budget, hist>>
    /\ otherUnchanged

HasRow(rows, wallet, token) ==
    \E r \in rows : r.wallet_address = wallet /\ r.token_address = token

SaveAndEndStopping(i, reason, bought) ==
    /\ traders' = save_trader_data(traders, traders_data[i].address,
                                   unprocessed_tokens[loop_i], reason, bought)
    /\ passed_traders' = IF reason = "PASS" THEN passed_traders + 1 ELSE passed_traders
    /\ sem' = sem + 1
    /\ completed' = completed + 1
    /\ tasks' = [tasks EXCEPT ![i] = [pc |-> "ended", phase |-> "summary"]]
    /\ hist' = [hist EXCEPT !.only429 = FALSE]
    /\ stop_processing' = (stop_processing \/ reason = "ERROR")

SaveAndEndDiscardsWhenStopped(i, reason, bought) ==
    /\ traders' = IF stop_processing THEN traders
                  ELSE save_trader_data(traders, traders_data[i].address,
                                        unprocessed_tokens[loop_i], reason, bought)
    /\ passed_traders' = IF reason = "PASS" /\ ~stop_processing
                         THEN passed_traders + 1 ELSE passed_traders
    /\ sem' = sem + 1
    /\ completed' = completed + 1
    /\ tasks' = [tasks EXCEPT ![i] = [pc |-> "ended", phase |-> "summary"]]
    /\ hist' = [hist EXCEPT !.only429 = FALSE,
                            !.pass_written = IF reason = "PASS" /\ ~stop_processing
                                             THEN @ + 1 ELSE @]
    /\ UNCHANGED stop_processing

SaveAndEndLosesCount(i, reason, bought) ==
    /\ traders' = save_trader_data(traders, traders_data[i].address,
                                   unprocessed_tokens[loop_i], reason, bought)
    /\ passed_traders' = IF reason = "PASS" THEN 1 ELSE passed_traders
    /\ sem' = sem + 1
    /\ completed' = completed + 1
    /\ tasks' = [tasks EXCEPT ![i] = [pc |-> "ended", phase |-> "summary"]]
    /\ hist' = [hist EXCEPT !.only429 = FALSE,
                            !.pass_written = IF reason = "PASS" THEN @ + 1 ELSE @]
    /\ UNCHANGED stop_processing

\* Lines 350-372 (reason from evaluate_trader, the trader's own figures) or
\* line 392 (reason ERROR, zeroed figures): the row is saved, a PASS counted,
\* the semaphore left, and evaluate_with_progress counts the task.
SaveAndEnd(i, reason, bought) ==
    /\ traders' = save_trader_data(traders, traders_data[i].address, CurrentToken,
                                   reason, bought)
    /\ passed_traders' = IF reason = "PASS" THEN passed_traders + 1 ELSE passed_traders
    /\ sem' = sem + 1
    /\ completed' = completed + 1
    /\ tasks' = [tasks EXCEPT ![i] = EndedTask]
    /\ hist' = [hist EXCEPT
                    !.only429 = FALSE,
                    !.n429 = Count429(i, FALSE),
                    !.replaced = @ \/ HasRow(traders, traders_data[i].address, CurrentToken),
                    !.pass_written = IF reason = "PASS" THEN @ + 1 ELSE @,
                    !.late_pass = @ \/ (stop_processing /\ reason = "PASS")]
    /\ UNCHANGED stop_processing

\* Lines 375-380: the exception is a throttle signal; the flag is set, the
\* fatal callback called, nothing saved.
ThrottleAndEnd(i) ==
    /\ stop_processing' = TRUE
    /\ hist' = [hist EXCEPT !.only429 = FALSE, !.fatal = TRUE, !.eval429 = TRUE,
                            !.n429 = Count429(i, FALSE)]
    /\ sem' = sem + 1
    /\ completed' = completed + 1
    /\ tasks' = [tasks EXCEPT ![i] = EndedTask]
    /\ UNCHANGED <<traders, passed_traders>>

\* The summary fetch returns payload.get("data", {}) (line 109).  Falsy data:
\* evaluate_trader returns ("JSON_FAIL", {}) and the row is saved.  Else
\* the holdings fetch starts.
FetchOkSummary(i, empty) ==
    /\ ppc = "evaluating"
    /\ tasks[i].pc = "inflight"
    /\ tasks[i].phase = "summary"
    /\ AllStarted
    /\ IF empty
       THEN SaveAndEnd(i, EvaluateTrader(EmptySummary, <<>>),
                       traders_data[i].totalBoughtUSD)
       ELSE /\ tasks' = [tasks EXCEPT ![i] = [pc |-> "attempt", phase |-> "holdings"]]
            /\ hist' = [hist EXCEPT !.only429 = FALSE, !.n429 = Count429(i, FALSE)]
            /\ UNCHANGED <<traders, passed_traders, sem, completed, stop_processing>>
    /\ UNCHANGED <<tokens_file, processed_tokens, runs, ppc, unprocessed_tokens,
                   loop_i, traders_data, budget>>
    /\ otherUnchanged

\* The holdings fetch returns and evaluate_trader finishes on x (the summary
\* it holds and the holdings just received; the summary's content decides
\* nothing before this point, so it is drawn here).  When building the stats
\* raises, the exception's text either carries a throttle marker ('429',
\* 'rate limit': float() quotes the upstream's string) or does not.
FetchOkHoldings(i, x, throttle_text) ==
    /\ ppc = "evaluating"
    /\ tasks[i].pc = "inflight"
    /\ tasks[i].phase = "holdings"
    /\ AllStarted
    /\ LET reason == EvaluateTrader(x.summary, x.holdings)
       IN IF reason # "RAISE"
          THEN /\ ~throttle_text
               /\ SaveAndEnd(i, reason, traders_data[i].totalBoughtUSD)
          ELSE IF throttle_text
               THEN ThrottleAndEnd(i)
               ELSE SaveAndEnd(i, "ERROR", 0)
    /\ UNCHANGED <<tokens_file, processed_tokens, runs, ppc, unprocessed_tokens,
                   loop_i, traders_data, budget>>
    /\ otherUnchanged

FinishTokenUnlessStopped ==
    /\ ppc = "evaluating"
    /\ \A j \in TaskIds : tasks[j].pc = "ended"
    /\ processed_tokens' =
          IF stop_processing THEN processed_tokens
          ELSE mark_token_processed(processed_tokens, unprocessed_tokens[loop_i],
                                    Len(traders_data), passed_traders)
    /\ loop_i' = loop_i + 1
    /\ ppc' = "loop"
    /\ traders_data' = <<>>
    /\ tasks' = <<>>
    /\ passed_traders' = 0
    /\ completed' = 0
    /\ sem' = 0
    /\ UNCHANGED <<tokens_file, traders, runs, unprocessed_tokens,
                   stop_processing, budget, hist>>
    /\ UNCHANGED <<ev_in, ev_out, dd, lim, pg, ft, web>>

\* Lines 418-430: gather returns, the checkpoint is written with the counts
\* reached; with the flag set line 424 raises, process_all_tokens logs it
\* (line 466) and goes to the next pass of its loop, as it does on a return.
FinishToken ==
    /\ ppc = "evaluating"
    /\ \A j \in TaskIds : tasks[j].pc = "ended"
    /\ processed_tokens' = mark_token_processed(processed_tokens, CurrentToken,
                                                Len(traders_data), passed_traders)
    /\ loop_i' = loop_i + 1
    /\ ppc' = "loop"
    /\ traders_data' = <<>>
    /\ tasks' = <<>>
    /\ passed_traders' = 0
    /\ completed' = 0
    /\ sem' = 0
    /\ hist' = [hist EXCEPT !.pass_written = 0]
    /\ UNCHANGED <<tokens_file, traders, runs, unprocessed_tokens,
                   stop_processing, budget>>
    /\ otherUnchanged

StopToggle ==
    /\ ppc # "idle"
    /\ stop_processing' = ~stop_processing
    /\ hist' = [hist EXCEPT !.user_stopped = TRUE]
    /\ UNCHANGED <<storeVars, runs, ppc, unprocessed_tokens, loop_i,
                   traders_data, passed_traders, completed, tasks, sem, budget>>
    /\ UNCHANGED <<ev_in, ev_out, dd, lim, pg, ft, web>>

\* TokenProcessor.stop(), called from another thread while the run is on,
\* any number of times.
Stop ==
    /\ ppc # "idle"
    /\ stop_processing' = TRUE
    /\ hist' = [hist EXCEPT !.user_stopped = TRUE]
    /\ UNCHANGED <<storeVars, runs, ppc, unprocessed_tokens, loop_i,
                   traders_data, passed_traders, completed, tasks, sem, budget>>
    /\ otherUnchanged

Next ==
    \/ StartRun
    \/ StartToken
    \/ FinishRun
    \/ \E h \in HolderLists : BullxList(h)
    \/ BullxThrottled
    \/ BullxError
    \/ \E i \in TaskIds : TaskStart(i)
    \/ \E i \in TaskIds : SemEnter(i)
    \/ \E i \in TaskIds : FetchAttempt(i)
    \/ \E i \in TaskIds, f \in Failures : FetchFail(i, f)
    \/ \E i \in TaskIds : FetchWake(i)
    \/ \E i \in TaskIds, e \in BOOLEAN : FetchOkSummary(i, e)
    \/ \E i \in TaskIds, x \in PipelineInputs, t \in BOOLEAN : FetchOkHoldings(i, x, t)
    \/ FinishToken
    \/ Stop

Spec == Init /\ [][Next]_vars

\* ---------------------------------------------- the other specifications
procStoreIdle ==
    /\ tokens_file = <<>>
    /\ storeEmpty
    /\ procIdle

\* evaluate_trader applied to one pair of upstream answers.
InitEval ==
    /\ procStoreIdle
    /\ ev_in \in EvalInputs /\ ev_out = "none"
    /\ dd = DedupIdle
    /\ lim = InitLimiterState
    /\ pg = ProgressIdle
    /\ ft = FetchIdle
    /\ web = WebIdle

Evaluate ==
    /\ ev_out = "none"
    /\ ev_out' = EvaluateTrader(ev_in.summary, ev_in.holdings)
    /\ UNCHANGED <<storeVars, procVars, ev_in, dd, lim, pg, ft, web>>

NextEval == Evaluate

SpecEval == InitEval /\ [][NextEval]_vars

\* fetch_traders_data's loop on one upstream answer, stop() racing with it.
InitDedup ==
    /\ procStoreIdle
    /\ ev_in = NoEval /\ ev_out = "none"
    /\ InitDedupLoop
    /\ lim = InitLimiterState
    /\ pg = ProgressIdle
    /\ ft = FetchIdle
    /\ web = WebIdle

NextDedup ==
    /\ DedupIterate \/ DedupReturn \/ DedupStopSet
    /\ UNCHANGED <<storeVars, procVars, ev_in, ev_out, lim, pg, ft, web>>

SpecDedup == InitDedup /\ [][NextDedup]_vars

\* _wait_slot called over and over by NumCallers threads.
InitLimiter ==
    /\ procStoreIdle
    /\ ev_in = NoEval /\ ev_out = "none"
    /\ dd = DedupIdle
    /\ lim = InitLimiterState
    /\ pg = ProgressIdle
    /\ ft = FetchIdle
    /\ web = WebIdle

NextLimiter ==
    /\ \/ \E c \in Callers : LimEnter(c)
       \/ \E c \in Callers : LimWake(c)
       \/ \E c \in Callers : LimGrant(c)
       \/ \E c \in Callers : LimReturn(c)
       \/ LimTick
    /\ UNCHANGED <<storeVars, procVars, ev_in, ev_out, dd, pg, ft, web>>

SpecLimiter == InitLimiter /\ [][NextLimiter]_vars

\* One target whose wallet list may be longer than the semaphore is wide.
WideWallets == CONCURRENCY_LIMIT + 1

procStart(b) ==
    /\ runs = 0 /\ ppc = "idle"
    /\ unprocessed_tokens = <<>> /\ loop_i = 1
    /\ stop_processing = FALSE
    /\ traders_data = <<>> /\ passed_traders = 0 /\ completed = 0
    /\ tasks = <<>> /\ sem = 0
    /\ budget = b

InitWide ==
    /\ tokens_file = <<"T1">>
    /\ storeEmpty
    /\ procStart(WideWallets)
    /\ hist = InitHist
    /\ otherVarsIdle

SpecWide == InitWide /\ [][Next]_vars

TargetFailsStops ==
    /\ ppc = "loop"
    /\ loop_i <= Len(unprocessed_tokens)
    /\ ~stop_processing
    /\ stop_processing' = TRUE
    /\ hist' = [hist EXCEPT !.target_failed = TRUE, !.fatal = TRUE]
    /\ UNCHANGED <<storeVars, runs, ppc, unprocessed_tokens, loop_i,
                   traders_data, passed_traders, completed, tasks, sem, budget>>
    /\ UNCHANGED <<ev_in, ev_out, dd, lim, pg, ft, web>>

\* process_single_token raises before its wallet-list fetch, with an
\* exception that carries no throttle text (line 326: token_name.split()[0]
\* on a line of tokens.txt whose name is empty; line 318: the token callback).
\* process_all_tokens logs it (line 466) and goes to the next pass.
TargetFails ==
    /\ ppc = "loop"
    /\ loop_i <= Len(unprocessed_tokens)
    /\ ~stop_processing
    /\ loop_i' = loop_i + 1
    /\ hist' = [hist EXCEPT !.target_failed = TRUE]
    /\ UNCHANGED <<storeVars, runs, ppc, unprocessed_tokens, stop_processing,
                   traders_data, passed_traders, completed, tasks, sem, budget>>
    /\ otherUnchanged

NextFaulty == Next \/ TargetFails

SpecFaulty == Init /\ [][NextFaulty]_vars

RemoveTokenCheckpointOnly(t) ==
    /\ t \in Range(tokens_file) \cup get_processed_token_addresses(processed_tokens)
             \cup {r.token_address : r \in traders}
    /\ processed_tokens' = {c \in processed_tokens : c.token_address # t}
    /\ tokens_file' = SelectSeq(tokens_file, LAMBDA a : ~startswith(a, t))
    /\ UNCHANGED <<traders, procVars>>
    /\ UNCHANGED <<ev_in, ev_out, dd, lim, pg, ft, web>>

\* web-app.py, remove_token(token_address), lines 657-681: the two DELETEs
\* run in one transaction of one connection, committed at line 663; then
\* tokens.txt is rewritten without the lines that start with the address
\* (line 674, startswith).  The request may come at any
\* time, also while a run is working on the target: the run's own list
\* (unprocessed_tokens) is not touched.
RemoveToken(t) ==
    /\ t \in Range(tokens_file) \cup get_processed_token_addresses(processed_tokens)
             \cup {r.token_address : r \in traders}
    /\ processed_tokens' = {c \in processed_tokens : c.token_address # t}
    /\ traders' = {r \in traders : r.token_address # t}
    /\ tokens_file' = SelectSeq(tokens_file, LAMBDA a : ~startswith(a, t))
    /\ hist' = [hist EXCEPT !.removed =
                    @ \/ (/\ t \in get_processed_token_addresses(processed_tokens)
                          /\ \E r \in traders : r.token_address = t)]
    /\ UNCHANGED <<runs, ppc, unprocessed_tokens, loop_i, stop_processing,
                   traders_data, passed_traders, completed, tasks, sem, budget>>
    /\ otherUnchanged

NextRemove == Next \/ \E t \in TokenIds : RemoveToken(t)

SpecRemove == Init /\ [][NextRemove]_vars

\* Target lists of two lines in which the address of one line is the
\* beginning of the address of another, in both orders, and one in which
\* it is not.
PrefixTokenFiles == {<<"T1", LongerAddress>>, <<LongerAddress, "T1">>,
                     <<"T1", "T2">>}

InitPrefix ==
    /\ tokens_file \in PrefixTokenFiles
    /\ storeEmpty
    /\ procIdle
    /\ otherVarsIdle

NextPrefix == Next \/ \E t \in AllAddresses : RemoveToken(t)

SpecPrefix == InitPrefix /\ [][NextPrefix]_vars

\* The upstream of one scripted run: one target with the wallets A, B, C;
\* A's fetches meet HTTP 429 twice, B's a malformed body once, C's nothing;
\* A and B then get figures that pass every rule, C a holding below min_roi.
ScenarioHolders == <<Entry("A"), Entry("B"), Entry("C")>>

ScenarioFails == <<<<"429", "429">>, <<"json">>, <<>>>>

ScenarioAnswer(i) ==
    [summary |-> Summary(FALSE, <<>>, MIN_PNL30 + 1),
     holdings |-> IF i = 3 THEN <<Holding(MIN_ROI - 1, TRUE)>>
                  ELSE <<Holding(MIN_ROI, TRUE)>>]

IsPrefix(p, q) == Len(p) <= Len(q) /\ \A k \in 1..Len(p) : p[k] = q[k]

InitScenario ==
    /\ tokens_file = <<"T1">>
    /\ storeEmpty
    /\ procStart(Len(ScenarioHolders))
    /\ hist = [InitHist EXCEPT !.fails = [i \in 1..Len(ScenarioHolders) |-> <<>>]]
    /\ otherVarsIdle

NextScenario ==
    \/ StartRun
    \/ StartToken
    \/ FinishRun
    \/ BullxList(ScenarioHolders)
    \/ \E i \in TaskIds : TaskStart(i)
    \/ \E i \in TaskIds : SemEnter(i)
    \/ \E i \in TaskIds : FetchAttempt(i)
    \/ \E i \in TaskIds, f \in Failures :
          /\ IsPrefix(Append(hist.fails[i], f), ScenarioFails[i])
          /\ FetchFail(i, f)
    \/ \E i \in TaskIds : FetchWake(i)
    \/ \E i \in TaskIds : FetchOkSummary(i, FALSE)
    \/ \E i \in TaskIds :
          /\ hist.fails[i] = ScenarioFails[i]
          /\ FetchOkHoldings(i, ScenarioAnswer(i), FALSE)
    \/ FinishToken

SpecScenario == InitScenario /\ [][NextScenario]_vars

\* The run's own steps: the coroutines of the event loop and the worker
\* threads between two waits (a sleep that ends is among them).
RunSteps ==
    \/ StartToken
    \/ FinishRun
    \/ FinishToken
    \/ \E i \in TaskIds : TaskStart(i)
    \/ \E i \in TaskIds : SemEnter(i)
    \/ \E i \in TaskIds : FetchAttempt(i)
    \/ \E i \in TaskIds : FetchWake(i)

\* The upstream answers an outstanding wallet-statistics request.
GmgnAnswers ==
    /\ ppc = "evaluating"
    /\ \E i \in TaskIds :
          \/ \E f \in Failures : FetchFail(i, f)
          \/ \E e \in BOOLEAN : FetchOkSummary(i, e)
          \/ \E x \in PipelineInputs, t \in BOOLEAN : FetchOkHoldings(i, x, t)

\* The upstream answers the outstanding wallet-list request.
BullxAnswers ==
    /\ ppc = "fetching"
    /\ \/ \E h \in HolderLists : BullxList(h)
       \/ BullxThrottled
       \/ BullxError

\* The event loop and the worker threads run and every sleep ends; every
\* outstanding request is answered, with whatever answer.  StartRun and Stop
\* are the user's and carry no fairness.
FairRun == WF_vars(RunSteps) /\ WF_vars(GmgnAnswers) /\ WF_vars(BullxAnswers)

SpecLive == Init /\ [][Next]_vars /\ FairRun

\* The counters of one target's evaluation, tasks finishing in any order.
InitProgress ==
    /\ procStoreIdle
    /\ ev_in = NoEval /\ ev_out = "none"
    /\ dd = DedupIdle
    /\ lim = InitLimiterState
    /\ InitProgressState
    /\ ft = FetchIdle
    /\ web = WebIdle

NextProgress ==
    \/ \E o \in Returns : PgReturn(o)
    \/ \E t \in BOOLEAN : PgRaise(t)
    \/ \E o \in Returns, t \in BOOLEAN : PgReportRaises(o, t)
    \/ PgSkip
    \/ PgStop

SpecProgress == InitProgress /\ [][NextProgress]_vars

\* _sync_fetch in two threads, stop() racing with them.
InitFetch ==
    /\ procStoreIdle
    /\ ev_in = NoEval /\ ev_out = "none"
    /\ dd = DedupIdle
    /\ lim = InitLimiterState
    /\ pg = ProgressIdle
    /\ InitFetchState
    /\ web = WebIdle

NextFetch ==
    \/ \E c \in Fetchers : SyncFetchWaitSlot(c)
    \/ \E c \in Fetchers : SyncFetchStopCheck(c)
    \/ \E c \in Fetchers, a \in Answers : SyncFetchAnswer(c, a)
    \/ \E c \in Fetchers : SyncFetchWake(c)
    \/ SyncFetchStop

SpecFetch == InitFetch /\ [][NextFetch]_vars

\* _sync_fetch with its threads scheduled: a thread that can take its next
\* statement (leave a sleep, take a slot, pass the stop check) does so.
\* Nothing is assumed about the upstream: a request may stay unanswered.
FairFetch ==
    \A c \in Fetchers :
        /\ WF_vars(SyncFetchWaitSlot(c))
        /\ WF_vars(SyncFetchStopCheck(c))
        /\ WF_vars(SyncFetchWake(c))

SpecFetchLive == InitFetch /\ [][NextFetch]_vars /\ FairFetch

\* The web app's requests: run_processor and stop_processor in any order
\* and overlap, runs ending and calling the fatal callback at any time.
InitWeb ==
    /\ procStoreIdle
    /\ ev_in = NoEval /\ ev_out = "none"
    /\ dd = DedupIdle
    /\ lim = InitLimiterState
    /\ pg = ProgressIdle
    /\ ft = FetchIdle
    /\ InitWebState

NextWeb ==
    \/ \E r \in Requests : RunProcessorGuard(r)
    \/ \E r \in Requests : RunProcessorActivate(r)
    \/ \E r \in Requests : RunProcessorStart(r)
    \/ \E r \in Requests : RunProcessorReturns(r)
    \/ StopProcessor
    \/ \E r \in Requests : FatalCallback(r)

SpecWeb == InitWeb /\ [][NextWeb]_vars

\* ================================================================= claims
\* ------------------------------------------------------------------- C1
\* C1: whatever runs, re-runs and saves have happened, the traders table
\* holds at most one row per (wallet_address, token_address) pair; a save for
\* a pair that has a row replaces it.
C1_OneRowPerPair ==
    \A r1 \in traders, r2 \in traders :
        (r1.wallet_address = r2.wallet_address /\ r1.token_address = r2.token_address)
            => r1 = r2

\* A save has met a row of its own pair, and the table holds rows.
C1_Witness == hist.replaced /\ traders # {}

C3_FirstAt(holders, a) ==
    CHOOSE k \in 1..Len(holders) :
        /\ holders[k].is_dict /\ holders[k].address = a
        /\ \A j \in 1..(k - 1) : ~(holders[j].is_dict /\ holders[j].address = a)

C3_InputAddresses(holders) ==
    {holders[k].address : k \in {j \in 1..Len(holders) :
                                    holders[j].is_dict /\ holders[j].address # ""}}

\* result holds each address of holders exactly once, in the order of first
\* occurrence, and nothing else.
C3_Deduplicated(holders, result) ==
    /\ \A i \in 1..Len(result), j \in 1..Len(result) :
            i # j => result[i].address # result[j].address
    /\ {result[i].address : i \in 1..Len(result)} = C3_InputAddresses(holders)
    /\ \A i \in 1..Len(result), j \in 1..Len(result) :
            i < j => C3_FirstAt(holders, result[i].address)
                        < C3_FirstAt(holders, result[j].address)

\* C3 as stated: for every array the upstream returns, the list that
\* fetch_traders_data produces holds each distinct address exactly once, in
\* first-occurrence order, and no other address.
C3_AlwaysDeduplicated ==
    dd.pc = "returned" => C3_Deduplicated(dd.holders, dd.result)

\* C3, amended: the same, provided the loop did not see the stop flag at one
\* of its stop checks; when it did, the list produced is empty.
C3_DeduplicatedUnlessStopped ==
    dd.pc = "returned" =>
        IF dd.cancelled THEN dd.result = <<>>
        ELSE C3_Deduplicated(dd.holders, dd.result)

\* The loop ran to its end on an array with a repeated address and kept at
\* least two wallets.
C3_Witness ==
    /\ dd.pc = "returned" /\ ~dd.cancelled
    /\ Len(dd.result) >= 2
    /\ Len(dd.result) < Len(dd.traders)

\* ------------------------------------------------------------- C4, C5, C6
\* The ROI values of the first top_n holdings are numbers.
NumericRoi(holdings) ==
    \A i \in 1..Len(holdings) : i <= TOP_N => holdings[i].numeric

\* evaluate_trader has returned on a non-empty summary and numeric ROI values.
Evaluated == ev_out # "none" /\ ~ev_in.summary.empty /\ NumericRoi(ev_in.holdings)

TaggedBot == \E i \in 1..Len(ev_in.summary.tags) : ev_in.summary.tags[i] = "sandwich_bot"

\* Some holding among the first top_n has ROI >= min_roi.
SomeTopRoiOk ==
    \E i \in 1..Len(ev_in.holdings) : i <= TOP_N /\ ev_in.holdings[i].roi >= MIN_ROI

\* C4: a wallet whose tags contain sandwich_bot gets TAG_sandwich_bot,
\* whatever its 30-day PnL percent and its holdings' ROI values.
C4_TagRuleFirst ==
    (Evaluated /\ TaggedBot) => ev_out = "TAG_sandwich_bot"

\* A tagged wallet that the PnL rule would fail, and one that would pass
\* every other rule, are both reached; this is the second.
C4_Witness ==
    /\ Evaluated /\ TaggedBot
    /\ ev_in.summary.pnl_30d > MIN_PNL30 /\ SomeTopRoiOk
    /\ ev_out = "TAG_sandwich_bot"

\* C5: a wallet without the tag gets PNL30_LOW exactly when its 30-day PnL
\* percent is <= the threshold; only a value above it reaches the ROI rule.
C5_PnlBoundary ==
    (Evaluated /\ ~TaggedBot) =>
        /\ (ev_out = "PNL30_LOW") <=> (ev_in.summary.pnl_30d <= MIN_PNL30)
        /\ ev_out \in {"ROI_LOW", "PASS"} => ev_in.summary.pnl_30d > MIN_PNL30

\* The value exactly at the threshold, with holdings that would pass.
C5_Witness ==
    /\ Evaluated /\ ~TaggedBot
    /\ ev_in.summary.pnl_30d = MIN_PNL30 /\ SomeTopRoiOk
    /\ ev_out = "PNL30_LOW"

\* C6: a wallet without the tag and with PnL above the threshold gets ROI_LOW
\* exactly when none of its first top_n holdings has ROI >= min_roi (so also
\* when it has no holdings), and PASS otherwise.
C6_RoiRule ==
    (Evaluated /\ ~TaggedBot /\ ev_in.summary.pnl_30d > MIN_PNL30) =>
        /\ (ev_out = "ROI_LOW") <=> ~SomeTopRoiOk
        /\ (ev_out = "PASS") <=> SomeTopRoiOk

\* ROI_LOW although a holding past the first top_n has ROI >= min_roi.
C6_Witness ==
    /\ Evaluated /\ ~TaggedBot /\ ev_in.summary.pnl_30d > MIN_PNL30
    /\ Len(ev_in.holdings) > TOP_N
    /\ ev_in.holdings[TOP_N + 1].numeric /\ ev_in.holdings[TOP_N + 1].roi >= MIN_ROI
    /\ ev_out = "ROI_LOW"

\* ------------------------------------------------------------------- C7
ReasonCodes == {"JSON_FAIL", "TAG_sandwich_bot", "PNL30_LOW", "ROI_LOW", "PASS", "ERROR"}

\* C7: every stored reason code is one of the six; evaluate_trader returns
\* none but the first five (or raises); a row with ERROR is the coordinator's
\* own, written with zeroed figures when the evaluation raised.
C7_ClosedReasons ==
    /\ \A r \in traders :
          /\ r.evaluation_result \in ReasonCodes
          /\ r.evaluation_result = "ERROR" => r.total_bought_usd = 0
    /\ \A x \in PipelineInputs :
          EvaluateTrader(x.summary, x.holdings) \in (ReasonCodes \ {"ERROR"}) \cup {"RAISE"}

\* The table holds an ERROR row and a row returned by the evaluator.
C7_Witness ==
    /\ \E r \in traders : r.evaluation_result = "ERROR"
    /\ \E r \in traders : r.evaluation_result = "PASS"

\* ------------------------------------------------------------------- C8
\* The wallets of a deduplicated list of length n are the first n of these.
WalletOrder == <<"A", "B", "C">>

\* C8: every wallet of the list of a checkpointed target has a row for that
\* target in the traders table.
C8_NoWalletDropped ==
    \A c \in processed_tokens :
        \A k \in 1..c.total_holders :
            HasRow(traders, WalletOrder[k], c.token_address)

\* ------------------------------------------------------------------- C9
\* C9 as stated: two successive returns of _wait_slot are at least
\* REQUEST_DELAY apart.
C9_ReturnsSpaced == lim.return_gap >= REQUEST_DELAY

\* C9, amended: the clock readings of two successive executions of
\* `_next_allowed = time.time() + REQUEST_DELAY` (made under the lock) are at
\* least REQUEST_DELAY apart, for any interleaving of the callers.
C9_GrantsSpaced == lim.grant_gap >= REQUEST_DELAY

\* Two grants took place and the second caller had to sleep for its slot.
C9_Witness ==
    /\ lim.waited
    /\ lim.grant_gap <= MaxTime

\* ------------------------------------------------------------------ C10
\* C10 as stated: when every answer to the wallet-statistics fetches is HTTP
\* 429, the stop flag is set once RetryBound answers in a row were 429.
C10_StopWithinBound ==
    (hist.only429 /\ ~hist.user_stopped /\ ~hist.bullx429 /\ hist.n429 >= RetryBound)
        => stop_processing

\* C10, amended: HTTP 429 answers to the wallet-statistics fetches never set
\* the stop flag, however many they are; once the flag is set (by stop(), by
\* a throttle signal of the wallet-list fetch or by an exception carrying
\* one) no further target is started, and every target the loop has passed
\* is checkpointed.
C10_FlagNotSetBy429 ==
    /\ [](/\ (hist.only429 /\ ~hist.user_stopped /\ ~hist.bullx429) => ~stop_processing
          /\ ppc = "loop" =>
                \A k \in 1..(loop_i - 1) :
                    unprocessed_tokens[k] \in get_processed_token_addresses(processed_tokens))
    /\ [][stop_processing => ~(ppc = "loop" /\ ppc' = "fetching")]_vars

\* RetryBound answers in a row were 429, nothing else was ever answered, and
\* the flag is unset.
C10_Witness ==
    /\ hist.only429 /\ hist.n429 >= RetryBound
    /\ ~hist.user_stopped /\ ~hist.bullx429
    /\ ~stop_processing

\* ------------------------------------------------------------------ C11
ScenarioRow(w, reason) ==
    [wallet_address |-> w, token_address |-> "T1",
     evaluation_result |-> reason, total_bought_usd |-> 100]

ScenarioRows ==
    {ScenarioRow("A", "PASS"), ScenarioRow("B", "PASS"), ScenarioRow("C", "ROI_LOW")}

ScenarioCheckpoint(passed) ==
    [token_address |-> "T1", total_holders |-> 3, passed_traders |-> passed]

\* C11 as stated: in the scripted run (A: HTTP 429 twice, B: a malformed
\* body once, C: no holding at min_roi) the wallets end with one row each,
\* A PASS, B PASS, C ROI_LOW, and the checkpoint records 3 wallets, 0 passed.
C11_ScenarioZeroPassed ==
    /\ traders \subseteq ScenarioRows
    /\ processed_tokens # {} =>
          /\ traders = ScenarioRows
          /\ processed_tokens = {ScenarioCheckpoint(0)}

\* C11, amended: the same rows, and the checkpoint records 3 wallets and
\* 2 passed (the two PASS rows).
C11_ScenarioTwoPassed ==
    /\ traders \subseteq ScenarioRows
    /\ processed_tokens # {} =>
          /\ traders = ScenarioRows
          /\ processed_tokens = {ScenarioCheckpoint(2)}

\* The target is checkpointed after every scripted failure has happened.
C11_Witness ==
    /\ processed_tokens # {}
    /\ hist.fails = ScenarioFails

\* ------------------------------------------------------------------ C12
\* A task whose evaluate_trader call has not been made yet.
NotBegun(t) == t.pc \in {"created", "semwait"}

\* C12: a throttle signal detected by the wallet-list fetch or by a wallet
\* evaluation sets the stop flag and reaches the fatal callback; with the flag
\* set, no task that has not begun its evaluation begins it.
C12_ThrottleStops ==
    /\ []((hist.bullx429 \/ hist.eval429) => (stop_processing /\ hist.fatal))
    /\ [][stop_processing =>
            \A i \in DOMAIN tasks :
                (NotBegun(tasks[i]) /\ i \in DOMAIN tasks')
                    => (NotBegun(tasks'[i]) \/ tasks'[i].pc = "ended")]_vars

\* An evaluation raised a throttle signal while another task was still
\* waiting for the semaphore.
C12_Witness ==
    /\ hist.eval429
    /\ \E i \in DOMAIN tasks : tasks[i].pc = "semwait"

\* ------------------------------------------------------------------ C13
\* C13: when the tasks of a target have all ended, stopped or not, the
\* checkpoint of the target is written with the length of the wallet list and
\* the passed count reached; a written checkpoint is never taken away.
C13_CheckpointAlways ==
    /\ [][(ppc = "evaluating" /\ ppc' # "evaluating") =>
            \E c \in processed_tokens' :
                /\ c.token_address = unprocessed_tokens[loop_i]
                /\ c.total_holders = Len(traders_data)
                /\ c.passed_traders = passed_traders]_vars
    /\ [][get_processed_token_addresses(processed_tokens)
            \subseteq get_processed_token_addresses(processed_tokens')]_vars

\* A stopped run checkpointed a target of two wallets of which one passed
\* and the other was abandoned without a row.
C13_Witness ==
    /\ stop_processing
    /\ \E c \in processed_tokens :
          /\ c.total_holders = 2 /\ c.passed_traders = 1
          /\ Cardinality({r \in traders : r.token_address = c.token_address}) = 1

\* ------------------------------------------------------------------ C14
\* C14: a checkpoint, once written, is never written again: no step changes
\* or removes a row of processed_tokens.
C14_CheckpointWrittenOnce ==
    [][\A c \in processed_tokens : c \in processed_tokens']_vars

\* ------------------------------------------------------------------ C15
\* The lines of the file whose address is not in done, in file order.
RECURSIVE C15_Pending(_, _)
C15_Pending(file, done) ==
    IF file = <<>> THEN <<>>
    ELSE (IF Head(file) \in done THEN <<>> ELSE <<Head(file)>>)
            \o C15_Pending(Tail(file), done)

C15_Checkpointed(t) == \E c \in processed_tokens : c.token_address = t

C16_FailureDoesNotBlock ==
    /\ [][TargetFails =>
            /\ ~stop_processing' /\ hist'.fatal = hist.fatal
            /\ ppc' = "loop" /\ loop_i' = loop_i + 1]_vars
    /\ []((hist.target_failed /\ ppc = "loop" /\ ~stop_processing
              /\ loop_i <= Len(unprocessed_tokens))
            => ENABLED StartToken)

\* The first target failed and left no checkpoint; the second is evaluated.
C16_Witness ==
    /\ hist.target_failed
    /\ processed_tokens = {}
    /\ loop_i = 2 /\ ppc = "evaluating"

\* ------------------------------------------------------------------ C17
\* C17: stop() sets the flag; a call made when it was already called changes
\* nothing; no step of a processor puts its flag back to false; with the
\* flag set no target is started.
C17_StopAbsorbing ==
    /\ [][Stop => stop_processing']_vars
    /\ [][(Stop /\ hist.user_stopped) => UNCHANGED vars]_vars
    /\ [][(stop_processing /\ runs' = runs) => stop_processing']_vars
    /\ [][(stop_processing /\ ppc = "loop") => ppc' # "fetching"]_vars

\* stop() was called, the run is over, and a target of the file is left
\* without a checkpoint.
C17_Witness ==
    /\ hist.user_stopped /\ stop_processing
    /\ ppc = "idle"
    /\ \E k \in 1..Len(tokens_file) :
          \A c \in processed_tokens : c.token_address # tokens_file[k]

\* ------------------------------------------------------------------ C18
\* C18: a step that writes an ERROR row writes it with zeroed figures, ends
\* the task of that wallet only (its slot is given back, the task counted),
\* and neither sets the stop flag nor calls the fatal callback: the other
\* tasks of the target are where they were.
C18_ErrorIsLocal ==
    [][\A r \in traders' \ traders :
          r.evaluation_result = "ERROR" =>
              /\ r.total_bought_usd = 0
              /\ stop_processing' = stop_processing
              /\ hist'.fatal = hist.fatal
              /\ sem' = sem + 1 /\ completed' = completed + 1
              /\ \A j \in DOMAIN tasks :
                    IF traders_data[j].address = r.wallet_address
                    THEN tasks'[j].pc = "ended"
                    ELSE tasks'[j] = tasks[j]]_vars

\* A wallet has its ERROR row while another wallet's request is in flight
\* and a third waits for the semaphore, the flag being unset.
C18_Witness ==
    /\ \E r \in traders : r.evaluation_result = "ERROR"
    /\ ~stop_processing
    /\ \E j \in DOMAIN tasks : tasks[j].pc = "inflight"
    /\ \E j \in DOMAIN tasks : tasks[j].pc = "semwait"

InSection == {i \in DOMAIN tasks : tasks[i].pc \in {"attempt", "inflight"} \cup Sleeps}

C21_ProgressAtCadence ==
    [][(pg.has_callback /\ pg'.completed # pg.completed) =>
          ( (/\ pg'.calls = pg.calls + 1
             /\ pg'.last = <<pg'.completed, pg'.total, pg'.passed>>)
            <=> Due(pg'.completed, pg'.total) )]_vars

\* ------------------------------------------------------------------ C22
C22_Checkpointed(rows, t) == \E c \in rows : c.token_address = t

C22_RowsOf(rows, t) == {r \in rows : r.token_address = t}

C22_Keys(rows, t) == {r.wallet_address : r \in C22_RowsOf(rows, t)}

\* C22: a checkpoint leaves processed_tokens only in a remove_token step for
\* its target, and that step leaves no outcome row of the target behind; in
\* the other direction, no step takes an outcome row of a target away (a
\* save replaces a row by one of the same key) while the target's checkpoint
\* stays.
C22_RemoveAtomic ==
    [][\A t \in TokenIds :
          /\ (C22_Checkpointed(processed_tokens, t) /\ ~C22_Checkpointed(processed_tokens', t))
                => (RemoveToken(t) /\ C22_RowsOf(traders', t) = {})
          /\ ~(C22_Keys(traders, t) \subseteq C22_Keys(traders', t))
                => (RemoveToken(t) /\ ~C22_Checkpointed(processed_tokens', t))]_vars

\* A request has deleted a checkpoint together with outcome rows, and
\* neither is in the store.
C22_Witness ==
    /\ hist.removed
    /\ \E t \in TokenIds :
          /\ t \notin Range(tokens_file)
          /\ ~C22_Checkpointed(processed_tokens, t)
          /\ C22_RowsOf(traders, t) = {}
          /\ processed_tokens # {}

\* ------------------------------------------------------------------ C23
\* C23: HTTP 429 never ends a fetch.  With the stop predicate false the
\* answer 429 takes the fetch to its 429 backoff, the backoff to the top of
\* the loop, the top to a new rate-limiter slot and a new request; however
\* many 429 answers came in a row, a fetch whose latest answer is 429 has
\* neither returned nor raised, and it is cancelled only with the stop
\* predicate true.
C23_Never429GivesUp ==
    /\ [](\A c \in Fetchers :
            ft.th[c].last = "429" =>
               /\ ft.th[c].pc \in {"sleep429", "sleepExc", "top", "check",
                                   "inflight", "cancelled"}
               /\ ft.th[c].pc = "cancelled" => ft.stop)
    /\ [][\A c \in Fetchers :
            /\ (/\ ft.th[c].pc = "inflight" /\ ft'.th[c].pc # "inflight"
                /\ ft'.th[c].last = "429" /\ ~ft.stop)
                  => ft'.th[c].pc = "sleep429"
            /\ (ft.th[c].pc = "sleep429" /\ ft'.th[c].pc # "sleep429")
                  => ft'.th[c].pc = "top"
            /\ (ft.th[c].pc = "top" /\ ft'.th[c].pc # "top")
                  => ft'.th[c].pc = "check"
            /\ (ft.th[c].pc = "check" /\ ft'.th[c].pc # "check" /\ ~ft.stop)
                  => (ft'.th[c].pc = "inflight" /\ ft'.th[c].sent = ft.th[c].sent + 1)
       ]_vars

\* A request is in flight after MaxAttempts - 1 answers that were all 429.
C23_Witness ==
    \E c \in Fetchers :
        /\ ft.th[c].only429
        /\ ft.th[c].attempt = MaxAttempts
        /\ ft.th[c].pc = "inflight"
        /\ ~ft.stop

\* ------------------------------------------------------------------ C24
\* C24: a fetch call that has ended either returned the data section of an
\* answer with application code 0 or failed as Cancelled; no failure of an
\* attempt reaches its caller.
C24_EndsByDataOrCancelled ==
    \A c \in Fetchers :
        ft.th[c].pc \in {"returned", "cancelled", "raised"} =>
            \/ ft.th[c].pc = "returned" /\ ft.th[c].last = "ok"
            \/ ft.th[c].pc = "cancelled"

\* ------------------------------------------------------------------ C25
\* C25: a request is sent only by an attempt that has just passed the stop
\* check with the predicate false; an attempt that finds the predicate true
\* at the check ends the fetch as cancelled without sending, and a cancelled
\* fetch does nothing more.
C25_StopCheckedBeforeRequest ==
    [][\A c \in Fetchers :
          /\ ft'.th[c].sent # ft.th[c].sent
                => (/\ ft.th[c].pc = "check" /\ ~ft.stop
                    /\ ft'.th[c].sent = ft.th[c].sent + 1)
          /\ (ft.th[c].pc = "check" /\ ft.stop /\ ft'.th[c] # ft.th[c])
                => (/\ ft'.th[c].pc = "cancelled"
                    /\ ft'.th[c].sent = ft.th[c].sent)
          /\ ft.th[c].pc = "cancelled" => ft'.th[c] = ft.th[c]
      ]_vars

\* A fetch cancelled at the check of its second or later attempt: that
\* attempt took a slot and sent nothing.
C25_Witness ==
    \E c \in Fetchers :
        /\ ft.th[c].pc = "cancelled"
        /\ ft.th[c].attempt >= 2
        /\ ft.th[c].sent = ft.th[c].attempt - 1

\* ------------------------------------------------------------------ C26
\* C26: every request is preceded by a rate-limiter acquisition of its own:
\* a thread has sent as many requests as it was granted slots, less the one
\* slot of an attempt that has not sent yet or was cancelled, and a request
\* is in flight only with all granted slots used; summed over the threads,
\* requests never outnumber grants.
C26_OwnSlotPerRequest ==
    /\ \A c \in Fetchers :
          /\ ft.th[c].sent <= ft.th[c].acquired
          /\ ft.th[c].acquired <= ft.th[c].sent + 1
          /\ ft.th[c].acquired = ft.th[c].attempt
          /\ ft.th[c].pc \in {"inflight", "returned", "raised"} \cup FetchSleeps
                => ft.th[c].sent = ft.th[c].acquired
    /\ ft.th[1].sent + ft.th[2].sent <= ft.th[1].acquired + ft.th[2].acquired

\* Two fetches in flight at once, one of them on a retry.
C26_Witness ==
    /\ ft.th[1].pc = "inflight" /\ ft.th[2].pc = "inflight"
    /\ ft.th[1].attempt >= 2
    /\ ft.th[1].last # "none"

\* ------------------------------------------------------------------ C27
\* C27: no failed attempt backs off with the stop predicate true: a fetch is
\* in a backoff sleep only if the predicate was false when the failed
\* attempt chose the sleep (with the predicate true it fails as Cancelled
\* instead).
C27_NoSleepWithFlagSet ==
    \A c \in Fetchers :
        ft.th[c].pc \in FetchSleeps => ~ft.th[c].stop_at_fail

\* ------------------------------------------------------------------ C28
C28_Row(i, reason) ==
    \E r \in traders' :
        /\ r.wallet_address = traders_data[i].address
        /\ r.token_address = CurrentToken
        /\ r.evaluation_result = reason

\* C28: when the evaluator returns a reason code for a wallet while the stop
\* flag is already set, the step that takes the answer writes the wallet's
\* row with that reason and, for PASS, adds one to passed_traders, the count
\* the checkpoint is written with.
C28_InFlightCompletes ==
    [][\A i \in TaskIds :
          /\ (stop_processing /\ FetchOkSummary(i, TRUE))
                => (C28_Row(i, "JSON_FAIL") /\ passed_traders' = passed_traders)
          /\ \A x \in PipelineInputs :
                (/\ stop_processing
                 /\ EvaluateTrader(x.summary, x.holdings) # "RAISE"
                 /\ FetchOkHoldings(i, x, FALSE))
                => (/\ C28_Row(i, EvaluateTrader(x.summary, x.holdings))
                    /\ passed_traders' =
                          IF EvaluateTrader(x.summary, x.holdings) = "PASS"
                          THEN passed_traders + 1 ELSE passed_traders)
      ]_vars

\* A stopped target's checkpoint counts a PASS that was saved after the flag
\* was set.
C28_Witness ==
    /\ hist.late_pass
    /\ stop_processing
    /\ ppc = "loop" /\ loop_i > 1
    /\ \E c \in processed_tokens :
          /\ c.token_address = unprocessed_tokens[loop_i - 1]
          /\ c.passed_traders >= 1
    /\ \E r \in traders :
          /\ r.token_address = unprocessed_tokens[loop_i - 1]
          /\ r.evaluation_result = "PASS"

\* ------------------------------------------------------------------ C29
C29_Ended == {i \in DOMAIN tasks : tasks[i].pc = "ended"}

C30_Checkpoint00(t) ==
    [token_address |-> t, total_holders |-> 0, passed_traders |-> 0]

\* C30: the step in which the wallet list of a target comes back empty
\* writes the target's checkpoint with the counts 0 and 0 and hands the
\* target back to the loop: no task is created, no counter moves and the
\* outcome rows are left as they were.
C30_EmptyListCheckpointed ==
    [][(ppc = "fetching" /\ ppc' # "fetching") =>
          IF ppc' = "evaluating"
          THEN traders_data' # <<>> /\ Len(tasks') = Len(traders_data')
          ELSE /\ ppc' = "loop"
               /\ C30_Checkpoint00(CurrentToken) \in processed_tokens'
               /\ loop_i' = loop_i + 1
               /\ traders' = traders
               /\ tasks' = <<>> /\ traders_data' = <<>>
               /\ passed_traders' = passed_traders /\ completed' = completed
      ]_vars

\* A target checkpointed 0/0 that has no row, in a run with no throttle
\* signal and the stop flag unset.
C30_Witness ==
    /\ ppc = "loop" /\ loop_i > 1
    /\ ~stop_processing /\ ~hist.bullx429
    /\ C30_Checkpoint00(unprocessed_tokens[loop_i - 1]) \in processed_tokens
    /\ ~\E r \in traders : r.token_address = unprocessed_tokens[loop_i - 1]

\* ------------------------------------------------------------------ C31
\* What a wallet's fetch is doing: a request is outstanding exactly while
\* the task is "inflight".
C31_Outstanding(task) == IF task.pc = "inflight" THEN 1 ELSE 0

\* C31: the attempts of a wallet's fetch follow one another.  A request is
\* sent only from the top of the loop, in the fetch the task is in; a backoff
\* starts only when the outstanding request was answered; the top of the loop
\* is reached only by entering the fetch, by the end of a backoff, or, for
\* the first attempt of the holdings fetch, by the return of the summary
\* fetch; the holdings fetch is entered in no other way and the task never
\* goes back from it to the summary fetch.
C31_SequentialAttempts ==
    [][\A i \in DOMAIN tasks \cap DOMAIN tasks' :
          LET a == tasks[i]
              b == tasks'[i]
          IN /\ C31_Outstanding(b) > C31_Outstanding(a)
                   => (a.pc = "attempt" /\ b.phase = a.phase)
             /\ (b.pc \in Sleeps /\ b.pc # a.pc)
                   => (a.pc = "inflight" /\ b.phase = a.phase)
             /\ (b.pc = "attempt" /\ a.pc # "attempt")
                   => \/ a.pc = "semwait" /\ b.phase = "summary"
                      \/ a.pc \in Sleeps /\ b.phase = a.phase
                      \/ /\ a.pc = "inflight"
                         /\ a.phase = "summary" /\ b.phase = "holdings"
                         /\ FetchOkSummary(i, FALSE)
             /\ (a.phase = "summary" /\ b.phase = "holdings")
                   => (a.pc = "inflight" /\ b.pc = "attempt")
             /\ (a.phase = "holdings" /\ b.phase = "summary")
                   => b.pc = "ended"
             /\ (a.pc = b.pc /\ b.pc # "ended") => b.phase = a.phase
      ]_vars

\* The holdings fetch of a wallet backs off after a failed attempt while the
\* summary request of another wallet is outstanding.
C31_Witness ==
    \E i \in DOMAIN tasks, j \in DOMAIN tasks :
        /\ tasks[i].phase = "holdings" /\ tasks[i].pc \in Sleeps
        /\ tasks[j].phase = "summary" /\ tasks[j].pc = "inflight"

\* ------------------------------------------------------------------ C32
\* C32: when the stop flag is never set and some attempt of a fetch is
\* answered with a body that parses and carries the code 0, the fetch
\* returns (line 109, the data section of that body), whatever answers the
\* earlier attempts met; it returns on no other answer; and until then a
\* fetch that backs off after a failed attempt sends a new request, unless
\* the stop flag is set meanwhile.
C32_EventuallyReturnsData ==
    /\ \A c \in Fetchers :
          ([]~ft.stop /\ <>(ft.th[c].last = "ok"))
              => <>[](ft.th[c].pc = "returned" /\ ft.th[c].last = "ok")
    /\ [](\A c \in Fetchers : ft.th[c].pc = "returned" => ft.th[c].last = "ok")
    /\ \A c \in Fetchers :
          (ft.th[c].pc \in FetchSleeps /\ ft.th[c].attempt < MaxAttempts)
              ~> (ft.th[c].pc = "inflight" \/ ft.stop)

\* A fetch has returned at its last attempt, after failures other than 429,
\* with the stop flag unset, while the other fetch is backing off.
C32_Witness ==
    \E c \in Fetchers, d \in Fetchers :
        /\ c # d
        /\ ~ft.stop
        /\ ft.th[c].pc = "returned" /\ ft.th[c].last = "ok"
        /\ ft.th[c].attempt = MaxAttempts
        /\ ~ft.th[c].only429
        /\ ft.th[d].pc \in FetchSleeps

\* ------------------------------------------------------------------ C33
\* Whatever else an empty summary could be read as carrying.
C33_EmptySummaries == {Summary(TRUE, t, p) : t \in TagLists, p \in PnlVals}

\* C33: when the summary fetch of a wallet returns empty data the evaluation
\* ends in that step: the wallet's row is saved with JSON_FAIL, the task is
\* over without having entered the holdings fetch, and no PASS is counted;
\* evaluate_trader's answer to an empty summary is JSON_FAIL with a stats
\* record without fields, whatever tags, PnL or holdings a rule would have
\* met.
C33_EmptySummaryFails ==
    [][\A i \in DOMAIN tasks :
          FetchOkSummary(i, TRUE) =>
              /\ tasks[i].phase = "summary"
              /\ tasks'[i] = EndedTask
              /\ \E r \in traders' :
                    /\ r.wallet_address = traders_data[i].address
                    /\ r.token_address = CurrentToken
                    /\ r.evaluation_result = "JSON_FAIL"
              /\ passed_traders' = passed_traders
              /\ \A s \in C33_EmptySummaries, h \in SeqUpTo(Holdings, 2) :
                    /\ EvaluateTrader(s, h) = "JSON_FAIL"
                    /\ DOMAIN EvaluateTraderStats(s, h) = {}
      ]_vars

\* A wallet of the current target ended with a JSON_FAIL row while another
\* wallet, whose summary was not empty, is in its holdings fetch.
C33_Witness ==
    /\ ppc = "evaluating"
    /\ \E i \in DOMAIN tasks, j \in DOMAIN tasks :
          /\ tasks[i].pc = "ended"
          /\ \E r \in traders :
                /\ r.wallet_address = traders_data[i].address
                /\ r.token_address = CurrentToken
                /\ r.evaluation_result = "JSON_FAIL"
          /\ tasks[j].phase = "holdings" /\ tasks[j].pc = "inflight"

\* ------------------------------------------------------------------ C34
\* C34: a run in which stop() was called comes to its end (with every
\* request answered and every sleep ended).  On the way, with the flag set:
\* no fetch sends a request, a fetch at the top of its loop ends its wallet's
\* evaluation without a row; a task that has not started evaluating ends
\* without a row; the target under evaluation gets its checkpoint when its
\* tasks are over; and the loop of process_all_tokens begins no target.
C34_StopTerminates ==
    /\ (hist.user_stopped /\ ppc # "idle") ~> (ppc = "idle")
    /\ [][stop_processing =>
            /\ \A i \in DOMAIN tasks \cap DOMAIN tasks' :
                  /\ (tasks'[i].pc = "inflight") => (tasks[i].pc = "inflight")
                  /\ (/\ tasks[i].pc \in {"created", "semwait", "attempt"}
                      /\ tasks'[i] # tasks[i])
                        => (tasks'[i] = EndedTask /\ traders' = traders)
            /\ (ppc = "evaluating" /\ ppc' # "evaluating")
                  => (/\ ppc' = "loop"
                      /\ CurrentToken \in get_processed_token_addresses(processed_tokens'))
            /\ (ppc = "fetching" /\ ppc' # "fetching")
                  => (/\ ppc' = "loop"
                      /\ CurrentToken \in get_processed_token_addresses(processed_tokens'))
            /\ (ppc = "loop" /\ ppc' # "loop") => ppc' = "idle"
      ]_vars

\* A stopped run has ended: the user's stop came while a request was
\* outstanding, the target was checkpointed with a wallet left without a row,
\* and a target of the run's list was never begun.
C34_Witness ==
    /\ ppc = "idle"
    /\ hist.user_stopped /\ stop_processing
    /\ ~hist.bullx429 /\ ~hist.eval429
    /\ \E c \in processed_tokens :
          /\ c.total_holders > Cardinality({r \in traders :
                                    r.token_address = c.token_address})
    /\ \E k \in 1..Len(tokens_file) :
          tokens_file[k] \notin get_processed_token_addresses(processed_tokens)

\* ------------------------------------------------------------------ C35
C35_Rows(rows, t) == {r \in rows : r.token_address = t}

\* C35: a run's list holds no target that had a checkpoint when the run
\* started: a listed target with a checkpoint got it at an earlier place of
\* this same run's list.  The wallet-list fetch and the evaluations concern
\* the run's current target only, so no run fetches or evaluates a target
\* checkpointed before it started, however few rows the target has.
C35_CheckpointGates ==
    /\ [](\A k \in 1..Len(unprocessed_tokens) :
            unprocessed_tokens[k] \in get_processed_token_addresses(processed_tokens)
                => \E j \in 1..(loop_i - 1) :
                      j <= Len(unprocessed_tokens)
                      /\ unprocessed_tokens[j] = unprocessed_tokens[k])
    /\ [][/\ StartRun =>
                Range(unprocessed_tokens')
                    \cap get_processed_token_addresses(processed_tokens) = {}
          /\ ppc' \in {"fetching", "evaluating"} =>
                (loop_i' \in 1..Len(unprocessed_tokens')
                 /\ unprocessed_tokens' = unprocessed_tokens)
          /\ \A t \in TokenIds :
                C35_Rows(traders', t) # C35_Rows(traders, t)
                    => (ppc = "evaluating" /\ t = CurrentToken)
      ]_vars

\* The second run works on another target while the target its predecessor
\* was stopped on keeps a checkpoint that counts more wallets than it has
\* rows.
C35_Witness ==
    /\ runs = 2 /\ ppc \in {"fetching", "evaluating"}
    /\ \E c \in processed_tokens :
          /\ c.total_holders > Cardinality(C35_Rows(traders, c.token_address))
          /\ c.token_address \in Range(tokens_file)
          /\ c.token_address \notin Range(unprocessed_tokens)

\* ------------------------------------------------------------------ C36
\* The wallet-list fetch of the current target ends without wallets: the
\* upstream raised (a throttle signal or anything else), or it answered and
\* the list is empty after the filters, or the stop flag was seen by the
\* deduplication loop.
C36_NoWallets ==
    /\ ppc = "fetching"
    /\ \/ BullxThrottled
       \/ BullxError
       \/ \E h \in HolderLists :
             /\ stop_processing \/ DedupLoop(Top500Filter(h)) = <<>>
             /\ BullxList(h)

\* C36: whatever the reason the wallet-list fetch yields no wallets, that
\* step writes the target's checkpoint with the counts 0 and 0 and gives
\* the target back to the loop without touching rows, tasks or counters;
\* only the throttle signal sets the stop flag and calls the fatal callback
\* (in fetch_traders_data), the return itself does neither; and a target
\* that has a checkpoint keeps one.
C36_NoWalletsCheckpointed ==
    [][/\ C36_NoWallets =>
            /\ C30_Checkpoint00(CurrentToken) \in processed_tokens'
            /\ ppc' = "loop" /\ loop_i' = loop_i + 1
            /\ traders' = traders /\ tasks' = tasks
            /\ passed_traders' = passed_traders /\ completed' = completed
            /\ IF BullxThrottled
               THEN stop_processing' /\ hist'.fatal
               ELSE stop_processing' = stop_processing /\ hist' = hist
       /\ get_processed_token_addresses(processed_tokens)
              \subseteq get_processed_token_addresses(processed_tokens')
      ]_vars

\* The wallet-list fetch of a target was throttled: the flag is set, the
\* fatal callback was called, and the target has its 0/0 checkpoint.
C36_Witness ==
    /\ hist.bullx429 /\ hist.fatal /\ stop_processing
    /\ ppc = "loop" /\ loop_i > 1
    /\ C30_Checkpoint00(unprocessed_tokens[loop_i - 1]) \in processed_tokens

\* ------------------------------------------------------------------ C37
\* C37: while a target is evaluated 0 <= passed_so_far <= completed <= total
\* holds, also for the figures of the latest progress report; completed
\* never decreases, and a step adds to it at most the number of tasks that
\* finish in the step (one wallet, one increment).
C37_CountersOrdered ==
    /\ [](/\ 0 <= pg.passed
          /\ pg.passed <= pg.completed
          /\ pg.completed <= pg.total
          /\ pg.last # <<>> =>
                (/\ 0 <= pg.last[3] /\ pg.last[3] <= pg.last[1]
                 /\ pg.last[1] <= pg.last[2] /\ pg.last[2] = pg.total))
    /\ [][/\ pg'.completed >= pg.completed
          /\ pg'.completed - pg.completed <= pg.pending - pg'.pending
      ]_vars

\* ------------------------------------------------------------------ C38
\* C38: the fatal callback has been invoked in a run only if the run met a
\* throttle signal (from the wallet-list fetch or in a wallet's evaluation);
\* a stop() call alone ends the evaluations without it.
C38_FatalOnlyOnThrottle ==
    hist.fatal => (hist.bullx429 \/ hist.eval429)

\* ------------------------------------------------------------------ C39
C39_Running == {r \in Requests : web.req[r].pc = "running"}

\* C39: at most one run executes at any time, and a run_processor request
\* that makes its test of processing_active while the run of another request
\* is set up or executing is rejected.
C39_SingleRun ==
    /\ [](Cardinality(C39_Running) <= 1)
    /\ [][\A r \in Requests :
            (/\ web.req[r].pc = "none" /\ web'.req[r].pc # "none"
             /\ \E q \in Requests : web.req[q].pc \in {"setup", "running"})
                => web'.req[r].pc = "rejected"]_vars


\* ------------------------------------------------------------------ C40
C40_Entries(file, u) == SelectSeq(file, LAMBDA a : a = u)

C40_Checkpoints(rows, u) == {c \in rows : c.token_address = u}

C40_Rows(rows, u) == {r \in rows : r.token_address = u}

\* C40: a remove_token(t) step leaves the checkpoints, the outcome rows and
\* the lines of tokens.txt of every target other than t as they were.
C40_RemoveFrame ==
    [][\A t \in AllAddresses :
          RemoveToken(t) =>
              \A u \in AllAddresses \ {t} :
                  /\ C40_Checkpoints(processed_tokens', u) = C40_Checkpoints(processed_tokens, u)
                  /\ C40_Rows(traders', u) = C40_Rows(traders, u)
                  /\ C40_Entries(tokens_file', u) = C40_Entries(tokens_file, u)]_vars

====
